---- MODULE Spec2Model ----
(***************************************************************************)
(* MCTS engine (src/src/mcts.hpp) and its threaded driver                  *)
(* (src/backend/core/mcts_threaded.hpp).                                   *)
(*                                                                         *)
(* A game state of G is a position in a finite game tree; a uct_node is    *)
(* identified by the path of (1-based) child indices from the initial      *)
(* position.  Equities are integers in units of 1/ONE, so that +1.0 is ONE *)
(* and -1.0 is -ONE.  Random draws are nondeterministic choices.           *)
(***************************************************************************)
EXTENDS Integers, Sequences, FiniteSets, TLC

VARIABLES
    \* the engine and its caller
    game, cfg, tree, root, last, crashed, playouts,
    \* threaded_tree: mutex_, the worker's unique_lock, the atomics, the
    \* configuration, and the position and locals of every thread
    mutex, w_owns, stop_flag, target_sims, dcfg,
    wpc, w_i, w_sims_to_run, hosts, hpc, harg, hneed, htimed, hret

evars == <<game, cfg, tree, root, last, crashed, playouts>>
dvars == <<mutex, w_owns, stop_flag, target_sims, dcfg,
           wpc, w_i, w_sims_to_run, hosts, hpc, harg, hneed, htimed, hret>>
vars == <<evars, dvars>>

(***************************************************************************)
(* Numeric conventions                                                     *)
(***************************************************************************)
\* one unit of equity: the double 1.0
ONE == 2
\* std::numeric_limits<double>::lowest(), the "not evaluated" sentinel
Lowest == -1000000
\* resolution of the fixed-point image of the doubles computed in select
FP == 10000
\* exploration constant c = sqrt(0.25) of the self-play harness, as CNum/CDen
CNum == 1
CDen == 2
MAX_ROLLOUT_ITERS == 10000
\* size_t(-1): std::numeric_limits<size_t>::max()
NULL == <<0>>

\* bounds of the exploration
MaxSimulations == 2
MaxPlayouts == 2

Abs(x) == IF x < 0 THEN -x ELSE x
Max2(a, b) == IF a >= b THEN a ELSE b

RECURSIVE isqrt_bin(_, _, _)
isqrt_bin(x, lo, hi) ==
    IF lo >= hi THEN lo
    ELSE LET mid == (lo + hi + 1) \div 2
         IN  IF mid * mid <= x THEN isqrt_bin(x, mid, hi)
             ELSE isqrt_bin(x, lo, mid - 1)
\* floor of the square root (x >= 0)
isqrt(x) == isqrt_bin(x, 0, 46340)

\* std::log(N) for N >= 1 in units of 1/10000
LnTab == <<0, 6931, 10986, 13863, 16094, 17918, 19459, 20794, 21972, 23026>>
ln_fp(N) == (LnTab[N] * FP) \div 10000

(***************************************************************************)
(* The game-state capability G: a finite family of games.                  *)
(*   kind "T": is_terminal(), val = get_terminal_eval()                    *)
(*   kind "X": check_non_terminal_eval() succeeds with val                 *)
(*   kind "N": neither; val and probs are what G::eval reports             *)
(***************************************************************************)
GT(v) == [kind |-> "T", val |-> v, rank |-> 0, probs |-> <<>>, subs |-> <<>>]
GN(v, rk, pr, s) == [kind |-> "N", val |-> v, rank |-> rk, probs |-> pr, subs |-> s]
GX(v, rk, s) == [kind |-> "X", val |-> v, rank |-> rk, probs |-> <<>>, subs |-> s]

Games ==
    << \* one winning move, one draw
       GN(1, 0, <<>>, << GT(-ONE), GT(0) >>),
       \* two winning moves and a losing one
       GN(0, 0, <<1, 1, 2>>, << GT(-ONE), GT(-ONE), GT(ONE) >>),
       \* two plies, no immediate win
       GN(0, 0, <<1, 3>>,
          << GN(1, 2, <<>>, << GT(ONE), GT(-ONE) >>),
             GT(ONE) >>),
       \* terminal initial position
       GT(ONE),
       \* heuristic-decided root
       GX(1, 0, << GN(0, 3, <<>>, << GT(ONE) >>),
                   GX(-1, 1, << GT(ONE) >>),
                   GN(0, 1, <<>>, << GT(0) >>) >>),
       \* a single legal move
       GN(0, 0, <<>>, << GN(0, 0, <<>>, << GT(ONE), GT(0) >>) >>)
    >>

RECURSIVE StateAt(_, _)
StateAt(g, p) == IF p = <<>> THEN g ELSE StateAt(g.subs[Head(p)], Tail(p))

RECURSIVE PathsOf(_, _)
PathsOf(g, p) ==
    {p} \cup UNION { PathsOf(g.subs[i], Append(p, i)) : i \in 1..Len(g.subs) }

Nodes == PathsOf(game, <<>>)
\* const G state of the node at path p
state(p) == StateAt(game, p)
is_terminal(p) == state(p).kind = "T"
\* G::check_non_terminal_eval
state_check_non_terminal_eval(p) == state(p).kind = "X"
get_non_terminal_rank(p) == state(p).rank

(***************************************************************************)
(* uct_node                                                                *)
(***************************************************************************)
Set_Null ==
    [Q_sum |-> 0, eval_Q |-> Lowest, visit_count |-> 0,
     all_children_evaluated |-> FALSE, parent |-> NULL,
     children |-> <<>>, eval_probs |-> <<>>]

\* a tree in which only the root object has been constructed
FreshTree(g) == [p \in PathsOf(g, <<>>) |-> Set_Null]

\* uct_node(G&&, parent): a child made by emplace_back
uct_node(par) == [Set_Null EXCEPT !.parent = par]

\* lazily materialises the children; returns the tree
get_children(t, p) ==
    IF t[p].children = <<>>
    THEN LET k == Len(state(p).subs)
         IN  [q \in DOMAIN t |->
                IF q = p THEN [t[p] EXCEPT !.children = [i \in 1..k |-> Append(p, i)]]
                ELSE IF Len(q) = Len(p) + 1 /\ SubSeq(q, 1, Len(p)) = p
                     THEN uct_node(p)
                     ELSE t[q]]
    ELSE t

is_evaluated(t, p) == t[p].eval_Q > Lowest
get_visit_count(t, p) == t[p].visit_count
check_non_terminal_eval(p) == state_check_non_terminal_eval(p)

\* the equity as the fraction n/d (d > 0), or st = "throw"
get_equity(t, p) ==
    IF ~is_evaluated(t, p) THEN [st |-> "throw", n |-> 0, d |-> 1]
    ELSE LET n == IF t[p].visit_count > 0 THEN t[p].Q_sum ELSE t[p].eval_Q
             d == IF t[p].visit_count > 0 THEN ONE * t[p].visit_count ELSE ONE
         IN  IF n < -d \/ n > d THEN [st |-> "throw", n |-> n, d |-> d]
             ELSE [st |-> "ok", n |-> n, d |-> d]

orphan(t, p) == [t EXCEPT ![p].parent = NULL]

(***************************************************************************)
(* rollout: the set of values a random playout can return                  *)
(***************************************************************************)
RECURSIVE rollout_from(_, _, _)
rollout_from(s, hero, i) ==
    IF i >= MAX_ROLLOUT_ITERS THEN {[st |-> "throw", v |-> 0]}
    ELSE IF s.kind \in {"T", "X"}
         THEN {[st |-> "ok", v |-> (IF hero THEN s.val ELSE -s.val)]}
    ELSE IF Len(s.subs) = 0 THEN {[st |-> "crash", v |-> 0]}
    ELSE UNION { rollout_from(s.subs[k], ~hero, i + 1) : k \in 1..Len(s.subs) }

rollout(p) == rollout_from(state(p), TRUE, 0)

(***************************************************************************)
(* eval                                                                    *)
(***************************************************************************)
\* the node's own evaluation: eval_Q, eval_probs and the truncate flag
eval_self(t, p, use_rollout) ==
    LET s == state(p) IN
    IF s.kind \in {"T", "X"}
    THEN {[st |-> "ok", t |-> [t EXCEPT ![p].eval_Q = s.val], truncate |-> TRUE]}
    ELSE IF use_rollout
    THEN { IF r.st = "ok"
           THEN [st |-> "ok", t |-> [t EXCEPT ![p].eval_Q = r.v], truncate |-> FALSE]
           ELSE [st |-> r.st, t |-> t, truncate |-> FALSE] : r \in rollout(p) }
    ELSE LET t1 == get_children(t, p)
         IN  {[st |-> "ok",
               t |-> [t1 EXCEPT ![p].eval_Q = s.val, ![p].eval_probs = s.probs],
               truncate |-> FALSE]}

RECURSIVE eval(_, _, _, _)
RECURSIVE eval_children_from(_, _, _, _)
\* the eval_children loop from child index i on
eval_children_from(t, p, i, use_rollout) ==
    IF i > Len(t[p].children) THEN {[st |-> "ok", t |-> t]}
    ELSE UNION { IF o.st = "ok" THEN eval_children_from(o.t, p, i + 1, use_rollout)
                 ELSE {o}
                 : o \in eval(t, t[p].children[i], use_rollout, FALSE) }

\* variant: the children are evaluated also after a truncated evaluation
eval_ignore_truncate(t, p, use_rollout, eval_children) ==
    IF is_evaluated(t, p) THEN {[st |-> "throw", t |-> t]}
    ELSE UNION {
        IF o.st # "ok" THEN {[st |-> o.st, t |-> o.t]}
        ELSE IF eval_children
        THEN { IF c.st = "ok"
               THEN [st |-> "ok", t |-> [c.t EXCEPT ![p].all_children_evaluated = TRUE]]
               ELSE c
               : c \in eval_children_from(get_children(o.t, p), p, 1, use_rollout) }
        ELSE {[st |-> "ok", t |-> o.t]}
        : o \in eval_self(t, p, use_rollout) }

eval(t, p, use_rollout, eval_children) ==
    IF is_evaluated(t, p) THEN {[st |-> "throw", t |-> t]}
    ELSE UNION {
        IF o.st # "ok" THEN {[st |-> o.st, t |-> o.t]}
        ELSE IF eval_children /\ ~o.truncate
        THEN { IF c.st = "ok"
               THEN [st |-> "ok", t |-> [c.t EXCEPT ![p].all_children_evaluated = TRUE]]
               ELSE c
               : c \in eval_children_from(get_children(o.t, p), p, 1, use_rollout) }
        ELSE {[st |-> "ok", t |-> o.t]}
        : o \in eval_self(t, p, use_rollout) }

(***************************************************************************)
(* backprop                                                                *)
(***************************************************************************)
\* variant: visit_count is incremented on the hero's levels only
RECURSIVE backprop_walk_hero_count(_, _, _, _)
backprop_walk_hero_count(t, cur, hero, e) ==
    IF cur = NULL THEN t
    ELSE backprop_walk_hero_count(
            [t EXCEPT ![cur].Q_sum = @ + (IF hero THEN e ELSE -e),
                      ![cur].visit_count = IF hero THEN @ + 1 ELSE @],
            t[cur].parent, ~hero, e)

\* variant: the sign of the evaluation does not alternate
RECURSIVE backprop_walk_same_sign(_, _, _, _)
backprop_walk_same_sign(t, cur, hero, e) ==
    IF cur = NULL THEN t
    ELSE backprop_walk_same_sign(
            [t EXCEPT ![cur].Q_sum = @ + e, ![cur].visit_count = @ + 1],
            t[cur].parent, hero, e)

RECURSIVE backprop_walk(_, _, _, _)
backprop_walk(t, cur, hero, e) ==
    IF cur = NULL THEN t
    ELSE backprop_walk(
            [t EXCEPT ![cur].Q_sum = @ + (IF hero THEN e ELSE -e),
                      ![cur].visit_count = @ + 1],
            t[cur].parent, ~hero, e)

backprop(t, leaf) ==
    IF ~is_evaluated(t, leaf) THEN [st |-> "throw", t |-> t]
    ELSE IF t[leaf].visit_count > 0 /\ ~is_terminal(leaf)
            /\ ~check_non_terminal_eval(leaf)
    THEN [st |-> "throw", t |-> t]
    ELSE [st |-> "ok", t |-> backprop_walk(t, leaf, TRUE, t[leaf].eval_Q)]

(***************************************************************************)
(* select                                                                  *)
(***************************************************************************)
\* N = (double)visit_count - 1.0 of the node whose children are scored
select_N(t, cur) == t[cur].visit_count - 1

\* the formula cannot be evaluated to a number: sqrt of a negative (PUCT),
\* sqrt(log(N)/..) with N <= 0 (UCT); every score is then NaN
score_is_nan(t, cur, use_puct) ==
    IF use_puct THEN select_N(t, cur) < 0 ELSE select_N(t, cur) <= 0

\* eval_probs[i] is read past the end of the vector
probs_out_of_bounds(t, cur, use_probs) ==
    use_probs /\ Len(t[cur].eval_probs) < Len(t[cur].children)

\* U of child i (1-based) in units of 1/FP
select_U(t, cur, i, use_puct, use_probs) ==
    LET N  == select_N(t, cur)
        n  == t[t[cur].children[i]].visit_count
        U0 == IF use_puct THEN isqrt(N * FP * FP) \div (1 + n)
              ELSE isqrt((ln_fp(N) * FP) \div Max2(n, 1))
    IN  IF use_probs THEN U0 * t[cur].eval_probs[i] ELSE U0

\* curr_uct = Q + c * U of child i in units of 1/FP
curr_uct(t, cur, i, use_puct, use_probs) ==
    LET eq == get_equity(t, t[cur].children[i])
    IN  ((-eq.n) * FP) \div eq.d
          + (CNum * select_U(t, cur, i, use_puct, use_probs)) \div CDen

\* best_actions after the scoring loop: the children tied for the maximum
best_actions(t, cur, use_puct, use_probs) ==
    LET K == 1..Len(t[cur].children)
    IN  { i \in K : \A j \in K :
            curr_uct(t, cur, i, use_puct, use_probs)
               >= curr_uct(t, cur, j, use_puct, use_probs) }

\* variant: with unexplored children left, any child may be taken
select_step_any_child(t0, cur, use_puct, use_probs) ==
    LET t == get_children(t0, cur)
    IN  { [st |-> "ok", t |-> t, best_action |-> i] : i \in 1..Len(t[cur].children) }

\* the outcome of one pass of the do-loop body at cur:
\*   st = "ok" with the chosen child, "throw", or "crash"
select_step(t0, cur, use_puct, use_probs) ==
    LET t  == get_children(t0, cur)
        K  == 1..Len(t[cur].children)
        unexplored == { i \in K : ~is_evaluated(t, t[cur].children[i]) }
        out(st, tt, i) == [st |-> st, t |-> tt, best_action |-> i]
    IN  IF K = {} THEN {out("throw", t, 0)}
        ELSE IF ~t[cur].all_children_evaluated /\ unexplored # {}
        THEN { out("ok", t, i) : i \in unexplored }
        ELSE LET t1 == [t EXCEPT ![cur].all_children_evaluated = TRUE]
             IN  IF \E i \in K : get_equity(t1, t1[cur].children[i]).st = "throw"
                 THEN {out("throw", t1, 0)}
                 ELSE IF score_is_nan(t1, cur, use_puct)
                         \/ probs_out_of_bounds(t1, cur, use_probs)
                 \* best_actions[0] of an empty vector, or a score computed from
                 \* memory past the end of eval_probs: undefined behaviour
                 THEN {out("crash", t1, 0), out("throw", t1, 0)}
                        \cup { out("ok", t1, i) : i \in K }
                 ELSE { out("ok", t1, i) : i \in best_actions(t1, cur, use_puct, use_probs) }

\* variant: the child taken at cur is the leaf, whatever it is
select_from_one_pass(t, cur, use_puct, use_probs) ==
    { IF o.st # "ok" THEN [st |-> o.st, t |-> o.t, leaf |-> NULL]
      ELSE [st |-> "ok", t |-> o.t, leaf |-> o.t[cur].children[o.best_action]]
      : o \in select_step(t, cur, use_puct, use_probs) }

RECURSIVE select_from(_, _, _, _)
select_from(t, cur, use_puct, use_probs) ==
    UNION {
        IF o.st # "ok" THEN {[st |-> o.st, t |-> o.t, leaf |-> NULL]}
        ELSE LET leaf == o.t[cur].children[o.best_action]
             IN  IF is_evaluated(o.t, leaf) /\ ~is_terminal(leaf)
                    /\ ~check_non_terminal_eval(leaf)
                 THEN select_from(o.t, leaf, use_puct, use_probs)
                 ELSE {[st |-> "ok", t |-> o.t, leaf |-> leaf]}
        : o \in select_step(t, cur, use_puct, use_probs) }

select(t, r, use_puct, use_probs) == select_from(t, r, use_puct, use_probs)

(***************************************************************************)
(* simulate                                                                *)
(***************************************************************************)
\* one pass of the for-loop body: select, evaluate the leaf, backprop
playout(t, r, c) ==
    UNION {
        IF s.st # "ok" THEN {[st |-> s.st, t |-> s.t]}
        ELSE IF ~is_evaluated(s.t, s.leaf)
        THEN { IF e.st = "ok" THEN backprop(e.t, s.leaf) ELSE e
               : e \in eval(s.t, s.leaf, c.use_rollout, c.eval_children) }
        ELSE IF ~is_terminal(s.leaf) /\ ~check_non_terminal_eval(s.leaf)
        THEN {[st |-> "throw", t |-> s.t]}
        ELSE {backprop(s.t, s.leaf)}
        : s \in select(t, r, c.use_puct, c.use_probs) }

RECURSIVE simulate_loop(_, _, _, _)
simulate_loop(t, r, k, c) ==
    IF k = 0 THEN {[st |-> "ok", t |-> t]}
    ELSE UNION { IF o.st = "ok" THEN simulate_loop(o.t, r, k - 1, c) ELSE {o}
                 : o \in playout(t, r, c) }

\* variant: the top node is evaluated again on every call
simulate_eval_root_again(t, r, c) ==
    { [st |-> o.st, t |-> o.t] : o \in eval_self(t, r, c.use_rollout) }

\* evaluation of the top node when it has not been evaluated
simulate_eval_root(t, r, c) ==
    IF ~is_evaluated(t, r) THEN eval(t, r, c.use_rollout, c.eval_children)
    ELSE {[st |-> "ok", t |-> t]}

\* variant: the top node is evaluated before the precondition is checked
simulate_eval_first(t0, r, simulations, c) ==
    LET t == get_children(t0, r)
    IN  UNION { IF o.st # "ok" THEN {o}
                ELSE IF Len(t[r].children) = 0 \/ is_terminal(r)
                THEN {[st |-> "throw", t |-> o.t]}
                ELSE simulate_loop(o.t, r, simulations, c)
                : o \in simulate_eval_root(t, r, c) }

simulate(t0, r, simulations, c) ==
    LET t == get_children(t0, r)
    IN  IF Len(t[r].children) = 0 \/ is_terminal(r) THEN {[st |-> "throw", t |-> t]}
        ELSE UNION { IF o.st = "ok" THEN simulate_loop(o.t, r, simulations, c) ELSE {o}
                     : o \in simulate_eval_root(t, r, c) }

(***************************************************************************)
(* make_move                                                               *)
(***************************************************************************)
\* variant: the child returned keeps its parent back-reference
make_move_no_orphan(t0, r, choice) ==
    LET t == get_children(t0, r)
    IN  IF choice >= Len(t[r].children) THEN [st |-> "throw", t |-> t, ret |-> NULL]
        ELSE [st |-> "ok", t |-> t, ret |-> t[r].children[choice + 1]]

\* variant: an index past the end is taken for the last child
make_move_clamped(t0, r, choice) ==
    LET t == get_children(t0, r)
        k == IF choice >= Len(t[r].children) THEN Len(t[r].children) ELSE choice + 1
    IN  IF k = 0 THEN [st |-> "throw", t |-> t, ret |-> NULL]
        ELSE [st |-> "ok", t |-> orphan(t, t[r].children[k]), ret |-> t[r].children[k]]

\* variant: the move yields a newly made node for the child's state
make_move_new_node(t0, r, choice) ==
    LET t == get_children(t0, r)
    IN  IF choice >= Len(t[r].children) THEN [st |-> "throw", t |-> t, ret |-> NULL]
        ELSE [st |-> "ok",
              t |-> [t EXCEPT ![t[r].children[choice + 1]] = Set_Null],
              ret |-> t[r].children[choice + 1]]

\* choice is the 0-based index of the code
make_move(t0, r, choice) ==
    LET t == get_children(t0, r)
    IN  IF choice >= Len(t[r].children) THEN [st |-> "throw", t |-> t, ret |-> NULL]
        ELSE [st |-> "ok", t |-> orphan(t, t[r].children[choice + 1]),
              ret |-> t[r].children[choice + 1]]

(***************************************************************************)
(* choose_best_action                                                      *)
(***************************************************************************)
\* fractions n/d with d > 0
RatGE(a, b) == a.n * b.d >= b.n * a.d
RatGT(a, b) == a.n * b.d > b.n * a.d

\* winning_moves: terminal children with negative equity, in index order
RECURSIVE winning_moves_from(_, _, _)
winning_moves_from(t, kids, i) ==
    IF i > Len(kids) THEN <<>>
    ELSE IF is_terminal(kids[i]) /\ get_equity(t, kids[i]).n < 0
         THEN <<i>> \o winning_moves_from(t, kids, i + 1)
         ELSE winning_moves_from(t, kids, i + 1)

\* the loop over the children that minimises get_non_terminal_rank
RECURSIVE min_rank_choice(_, _, _, _)
min_rank_choice(kids, i, min_non_terminal_rank, choice) ==
    IF i > Len(kids) THEN choice
    ELSE IF get_non_terminal_rank(kids[i]) < min_non_terminal_rank
         THEN min_rank_choice(kids, i + 1, get_non_terminal_rank(kids[i]), i)
         ELSE min_rank_choice(kids, i + 1, min_non_terminal_rank, choice)

\* variant: max_visit_count is not updated on a new high
RECURSIVE visit_choices_stale_max(_, _, _, _, _)
visit_choices_stale_max(t, kids, i, max_visit_count, queue) ==
    IF i > Len(kids) THEN queue
    ELSE LET curr_visit_count == t[kids[i]].visit_count
         IN  IF curr_visit_count >= max_visit_count
             THEN IF curr_visit_count > max_visit_count
                  THEN visit_choices_stale_max(t, kids, i + 1, max_visit_count, <<i>>)
                  ELSE visit_choices_stale_max(t, kids, i + 1, max_visit_count,
                                               Append(queue, i))
             ELSE visit_choices_stale_max(t, kids, i + 1, max_visit_count, queue)

\* choices_queue of the decide_using_visits loop
RECURSIVE visit_choices(_, _, _, _, _)
visit_choices(t, kids, i, max_visit_count, queue) ==
    IF i > Len(kids) THEN queue
    ELSE LET curr_visit_count == t[kids[i]].visit_count
         IN  IF curr_visit_count >= max_visit_count
             THEN IF curr_visit_count > max_visit_count
                  THEN visit_choices(t, kids, i + 1, curr_visit_count, <<i>>)
                  ELSE visit_choices(t, kids, i + 1, max_visit_count, Append(queue, i))
             ELSE visit_choices(t, kids, i + 1, max_visit_count, queue)

\* choices_queue of the decide-using-equity loop.  On a new high the code
\* assigns "curr_Q = max_Q", so max_Q keeps its initial value throughout.
RECURSIVE equity_choices(_, _, _, _, _)
equity_choices(t, kids, i, max_Q, queue) ==
    IF i > Len(kids) THEN queue
    ELSE LET eq     == get_equity(t, kids[i])
             curr_Q == [n |-> -eq.n, d |-> eq.d]
         IN  IF RatGE(curr_Q, max_Q)
             THEN IF RatGT(curr_Q, max_Q)
                  THEN equity_choices(t, kids, i + 1, max_Q, <<i>>)
                  ELSE equity_choices(t, kids, i + 1, max_Q, Append(queue, i))
             ELSE equity_choices(t, kids, i + 1, max_Q, queue)

SeqRange(q) == { q[i] : i \in 1..Len(q) }

\* the set of values "choice" can have before make_move(choice):
\* a 1-based child index, or 0 when no child is reached (an exception of
\* get_equity inside the loop, or a value that is no child index)
cba_choices(t, r, epsilon, decide_using_visits) ==
    LET kids == t[r].children
        num_legal_moves == Len(kids)
        winning_moves == winning_moves_from(t, kids, 1)
    IN  IF Len(winning_moves) > 0
        THEN IF Len(winning_moves) > 1
             \* winning_moves[(size_t)(unif(rand) + size)]: the element one
             \* past the end, an indeterminate size_t
             THEN 0..num_legal_moves
             ELSE {winning_moves[1]}
        ELSE IF check_non_terminal_eval(r)
        THEN {min_rank_choice(kids, 1, 2147483647, 0)}
        ELSE (IF epsilon < 1000    \* greedy = !(epsilon > 0 && unif(rand) < epsilon)
              THEN IF decide_using_visits
                   THEN SeqRange(visit_choices(t, kids, 1, 0, <<>>))
                   ELSE IF \E i \in 1..num_legal_moves :
                              get_equity(t, kids[i]).st = "throw"
                        THEN {0}
                        ELSE SeqRange(equity_choices(t, kids, 1,
                                         [n |-> Lowest, d |-> 1], <<>>))
              ELSE {})
             \cup (IF epsilon > 0 THEN 1..num_legal_moves ELSE {})

\* make_move(choice) and the check on the node returned
cba_finish(t, r, choice) ==
    IF choice = 0 THEN [st |-> "throw", t |-> t, ret |-> NULL]
    ELSE LET m  == make_move(t, r, choice - 1)
             t2 == get_children(m.t, m.ret)
         IN  IF Len(t2[m.ret].children) = 0 /\ ~is_terminal(m.ret)
             THEN [st |-> "throw", t |-> t2, ret |-> NULL]
             ELSE [st |-> "ok", t |-> t2, ret |-> m.ret]

\* variant: only epsilon < 0 is rejected
choose_best_action_no_upper(t0, r, epsilon, decide_using_visits) ==
    LET t    == get_children(t0, r)
        kids == t[r].children
    IN  IF epsilon < 0 THEN {[st |-> "throw", t |-> t0, ret |-> NULL]}
        ELSE IF Len(kids) = 0 THEN {[st |-> "throw", t |-> t, ret |-> NULL]}
        ELSE IF \E i \in 1..Len(kids) :
                   is_terminal(kids[i]) /\ get_equity(t, kids[i]).st = "throw"
        THEN {[st |-> "throw", t |-> t, ret |-> NULL]}
        ELSE { cba_finish(t, r, c) : c \in cba_choices(t, r, epsilon, decide_using_visits) }

\* epsilon is given in thousandths
choose_best_action(t0, r, epsilon, decide_using_visits) ==
    LET t    == get_children(t0, r)
        kids == t[r].children
    IN  IF epsilon < 0 \/ epsilon > 1000 THEN {[st |-> "throw", t |-> t0, ret |-> NULL]}
        ELSE IF Len(kids) = 0 THEN {[st |-> "throw", t |-> t, ret |-> NULL]}
        \* get_equity of a terminal child in the winning-move scan
        ELSE IF \E i \in 1..Len(kids) :
                   is_terminal(kids[i]) /\ get_equity(t, kids[i]).st = "throw"
        THEN {[st |-> "throw", t |-> t, ret |-> NULL]}
        ELSE { cba_finish(t, r, c) : c \in cba_choices(t, r, epsilon, decide_using_visits) }

(***************************************************************************)
(* get_sorted_actions                                                      *)
(***************************************************************************)
\* the 4-tuple (equity, non_terminal_rank, visit_count, action_text) of the
\* i-th child; the action text of a child is represented by its index
sort_tuple(t, kids, i) ==
    [equity |-> IF is_evaluated(t, kids[i])
                THEN [n |-> -get_equity(t, kids[i]).n, d |-> get_equity(t, kids[i]).d]
                ELSE [n |-> Lowest, d |-> 1],
     rank |-> get_non_terminal_rank(kids[i]),
     visit_count |-> t[kids[i]].visit_count,
     text |-> i]

\* variant: the tuples are compared for an ascending order
tuple_before_ascending(a, b) ==
    IF ~(RatGE(a.equity, b.equity) /\ RatGE(b.equity, a.equity))
    THEN RatGT(b.equity, a.equity)
    ELSE IF a.rank # b.rank THEN a.rank < b.rank
    ELSE IF a.visit_count # b.visit_count THEN a.visit_count < b.visit_count
    ELSE a.text < b.text

\* std::sort(moves.rbegin(), moves.rend()): a comes before b when b < a in
\* the lexicographic order of std::tuple
tuple_before(a, b) ==
    IF ~(RatGE(a.equity, b.equity) /\ RatGE(b.equity, a.equity))
    THEN RatGT(a.equity, b.equity)
    ELSE IF a.rank # b.rank THEN a.rank > b.rank
    ELSE IF a.visit_count # b.visit_count THEN a.visit_count > b.visit_count
    ELSE a.text > b.text

RECURSIVE sort_insert(_, _)
sort_insert(q, x) ==
    IF q = <<>> THEN <<x>>
    ELSE IF tuple_before(x, Head(q)) THEN <<x>> \o q
    ELSE <<Head(q)>> \o sort_insert(Tail(q), x)

RECURSIVE sorted_moves(_, _, _)
sorted_moves(t, kids, i) ==
    IF i > Len(kids) THEN <<>>
    ELSE sort_insert(sorted_moves(t, kids, i + 1), sort_tuple(t, kids, i))

\* moves_display: (visit_count, equity, action_text) of the sorted moves
get_sorted_actions(t0, r) ==
    LET t     == get_children(t0, r)
        kids  == t[r].children
        moves == sorted_moves(t, kids, 1)
    IN  IF \E i \in 1..Len(kids) :
              is_evaluated(t, kids[i]) /\ get_equity(t, kids[i]).st = "throw"
        THEN [st |-> "throw", t |-> t, ret |-> <<>>]
        ELSE [st |-> "ok", t |-> t,
              ret |-> [j \in 1..Len(moves) |->
                         [visit_count |-> moves[j].visit_count,
                          equity |-> moves[j].equity,
                          text |-> moves[j].text]]]

(***************************************************************************)
(* The engine driven by a single caller (src/src/test.cpp)                 *)
(***************************************************************************)
\* the arguments every simulate call of a caller is given
Configs ==
    [use_rollout : BOOLEAN, eval_children : BOOLEAN, use_puct : BOOLEAN,
     use_probs : BOOLEAN]

Epsilons == {-1, 0, 500, 1000, 1001}

\* the record of the last call: the operation, its arguments arg and flag,
\* its outcome st, and whether it was made on a root that had never been
\* evaluated nor visited
Call(op, arg, flag, st, t, r) ==
    [op |-> op, arg |-> arg, flag |-> flag, st |-> st, out |-> <<>>,
     fresh |-> (op = "simulate" /\ ~is_evaluated(t, r) /\ t[r].visit_count = 0)]

\* no threaded_tree is constructed
NoDriver ==
    /\ mutex = "none" /\ w_owns = FALSE /\ stop_flag = FALSE /\ target_sims = 0
    /\ dcfg = [sim_increment |-> 0, min_sims |-> 0, decide_using_visits |-> FALSE]
    /\ wpc = "w_none" /\ w_i = 0 /\ w_sims_to_run = 0
    /\ hosts = {} /\ hpc = <<>> /\ harg = <<>> /\ hneed = <<>> /\ htimed = <<>>
    /\ hret = <<>>

Init ==
    /\ game \in SeqRange(Games)
    /\ cfg \in Configs
    /\ tree = FreshTree(game)
    /\ root = <<>>
    /\ last = [op |-> "new", arg |-> 0, flag |-> FALSE, st |-> "ok", out |-> <<>>,
               fresh |-> FALSE]
    /\ crashed = FALSE
    /\ playouts = 0
    /\ NoDriver

\* my_mcts->simulate(n, rand, c, ...)
Simulate ==
    /\ ~crashed
    /\ \E n \in 0..MaxSimulations :
        /\ playouts + n <= MaxPlayouts
        /\ playouts' = playouts + n
        /\ \E o \in simulate(tree, root, n, cfg) :
            /\ tree' = o.t
            /\ crashed' = (o.st = "crash")
            /\ last' = Call("simulate", n, FALSE, o.st, tree, root)
    /\ UNCHANGED <<game, cfg, root, dvars>>

\* my_mcts = my_mcts->make_move(choice)
MakeMove ==
    /\ ~crashed
    /\ \E choice \in 0..Len(state(root).subs) :
        LET o == make_move(tree, root, choice)
        IN  /\ tree' = o.t
            /\ root' = IF o.st = "ok" THEN o.ret ELSE root
            /\ last' = Call("make_move", choice, FALSE, o.st, tree, root)
    /\ UNCHANGED <<game, cfg, crashed, playouts, dvars>>

\* my_mcts = my_mcts->choose_best_action(rand, epsilon, decide_using_visits)
ChooseBestAction ==
    /\ ~crashed
    /\ \E epsilon \in Epsilons, decide_using_visits \in BOOLEAN :
        \E o \in choose_best_action(tree, root, epsilon, decide_using_visits) :
            /\ tree' = o.t
            /\ root' = IF o.st = "ok" THEN o.ret ELSE root
            /\ last' = Call("choose_best_action", epsilon, decide_using_visits,
                            o.st, tree, root)
    /\ UNCHANGED <<game, cfg, crashed, playouts, dvars>>

\* my_mcts->get_sorted_actions(flip)
GetSortedActions ==
    /\ ~crashed
    /\ LET o == get_sorted_actions(tree, root)
       IN  /\ tree' = o.t
           /\ last' = [Call("get_sorted_actions", 0, FALSE, o.st, tree, root)
                         EXCEPT !.out = o.ret]
    /\ UNCHANGED <<game, cfg, root, crashed, playouts, dvars>>

Next == Simulate \/ MakeMove \/ ChooseBestAction

Spec == Init /\ [][Next]_vars

\* the same caller, which also queries the sorted actions
NextQuery == Simulate \/ MakeMove \/ ChooseBestAction \/ GetSortedActions

SpecQuery == Init /\ [][NextQuery]_vars

(***************************************************************************)
(* threaded_tree (src/backend/core/mcts_threaded.hpp): a worker thread and *)
(* host threads around one tree.  Every thread advances one step at a      *)
(* time; a step is one lock operation, one atomic load or store, one       *)
(* notification, or one engine call made inside a critical section.        *)
(***************************************************************************)
\* std::atomic<size_t> arithmetic wraps modulo 2^SizeBits
SizeBits == 16
SIZE_MOD == 2 ^ SizeBits
\* the largest argument of ensure_sims and the largest min_simulations
MaxEnsure == 2
MaxMinSims == 1
\* sim_increment ranges over 0..MaxIncrement
MaxIncrement == 2
\* the number of run_simulation calls the worker makes
MaxWorkerSims == 3

\* the games and the engine flags a threaded_tree is constructed with;
\* decide_using_visits_ is only handed on to choose_best_action
DriverGames == {Games[1], Games[4]}
DriverConfigs ==
    {[use_rollout |-> TRUE, eval_children |-> FALSE, use_puct |-> TRUE,
      use_probs |-> FALSE]}
DriverSettings ==
    [sim_increment : 0..MaxIncrement, min_sims : 0..MaxMinSims,
     decide_using_visits : {TRUE}]

\* what a host call hands back: st is "ok" or "throw" (the runtime_error
\* of make_move and set_state_and_make_best_move), out the value returned
NoResult == [st |-> "none", out |-> <<>>]

\* the constructor: a tree on the default board, the worker spawned
InitDriver ==
    /\ game \in DriverGames
    /\ cfg \in DriverConfigs
    /\ tree = FreshTree(game)
    /\ root = <<>>
    /\ last = [op |-> "new", arg |-> 0, flag |-> FALSE, st |-> "ok", out |-> <<>>,
               fresh |-> FALSE]
    /\ crashed = FALSE
    /\ playouts = 0
    /\ mutex = "none" /\ w_owns = FALSE /\ stop_flag = FALSE /\ target_sims = 0
    /\ dcfg \in DriverSettings
    /\ wpc = "w_start" /\ w_i = 0 /\ w_sims_to_run = 0
    /\ hosts = {"h1"}
    /\ hpc = [h \in hosts |-> "idle"]
    /\ harg = [h \in hosts |-> 0]
    /\ hneed = [h \in hosts |-> 0]
    /\ htimed = [h \in hosts |-> FALSE]
    /\ hret = [h \in hosts |-> NoResult]

\* std::mutex: lock blocks until the mutex is free; unlock frees it
\* whoever the caller is (a plain pthread mutex keeps no owner check)
lock(th) == mutex = "none" /\ mutex' = th
unlock == mutex' = "none"
\* cv_.notify_one / notify_all: the worker is the only waiter; a
\* notification that finds nobody blocked is dropped
notify == wpc' = IF wpc = "w_blocked" THEN "w_woken" ELSE wpc
goto(h, pc) == hpc' = [hpc EXCEPT ![h] = pc]
\* the call leaves its critical section with a result
result(h, pc, st, out) ==
    /\ hpc' = [hpc EXCEPT ![h] = pc]
    /\ hret' = [hret EXCEPT ![h] = [st |-> st, out |-> out]]
\* a call returns: its arguments and locals are gone
return(h) ==
    /\ hpc' = [hpc EXCEPT ![h] = "idle"]
    /\ harg' = [harg EXCEPT ![h] = 0]
    /\ hneed' = [hneed EXCEPT ![h] = 0]
    /\ htimed' = [htimed EXCEPT ![h] = FALSE]
    /\ hret' = [hret EXCEPT ![h] = NoResult]
Min2(a, b) == IF a < b THEN a ELSE b
\* variant: the stop flag is not read
polling_no_stop == target_sims > 0
\* while (target_sims_.load() > 0 && !stop_flag_)
polling == target_sims > 0 /\ ~stop_flag

(*--------------------------- worker_thread ------------------------------*)
\* std::unique_lock<std::mutex> lock(mutex_)
W_start ==
    /\ ~crashed /\ wpc = "w_start"
    /\ lock("w") /\ w_owns' = TRUE /\ wpc' = "w_loop"
    /\ UNCHANGED <<evars, stop_flag, target_sims, dcfg, w_i, w_sims_to_run,
                   hosts, hret, hpc, harg, hneed, htimed>>

\* while (!stop_flag_)
W_loop ==
    /\ ~crashed /\ wpc = "w_loop"
    /\ wpc' = IF stop_flag THEN "w_exit" ELSE "w_read"
    /\ UNCHANGED <<evars, mutex, w_owns, stop_flag, target_sims, dcfg, w_i,
                   w_sims_to_run, hosts, hret, hpc, harg, hneed, htimed>>

\* size_t target = target_sims_.load(); if (target > 0)
W_read ==
    /\ ~crashed /\ wpc = "w_read"
    /\ wpc' = IF target_sims > 0 THEN "w_unlock" ELSE "w_wait"
    /\ UNCHANGED <<evars, mutex, w_owns, stop_flag, target_sims, dcfg, w_i,
                   w_sims_to_run, hosts, hret, hpc, harg, hneed, htimed>>

\* cv_.wait(lock): releases the mutex and blocks.  Called on a lock the
\* worker does not own it is undefined: the mutex is released under
\* whoever holds it, or the process is terminated.
W_wait ==
    /\ ~crashed /\ wpc = "w_wait"
    /\ \/ unlock /\ wpc' = "w_blocked" /\ UNCHANGED crashed
       \/ ~w_owns /\ crashed' = TRUE /\ UNCHANGED <<mutex, wpc>>
    /\ UNCHANGED <<game, cfg, tree, root, last, playouts, w_owns, stop_flag,
                   target_sims, dcfg, w_i, w_sims_to_run, hosts, hret, hpc, harg,
                   hneed, htimed>>

\* a spurious wake-up of cv_.wait
W_spurious ==
    /\ ~crashed /\ wpc = "w_blocked"
    /\ wpc' = "w_woken"
    /\ UNCHANGED <<evars, mutex, w_owns, stop_flag, target_sims, dcfg, w_i,
                   w_sims_to_run, hosts, hret, hpc, harg, hneed, htimed>>

\* cv_.wait re-locks the mutex before it returns
W_woken ==
    /\ ~crashed /\ wpc = "w_woken"
    /\ lock("w") /\ wpc' = "w_loop"
    /\ UNCHANGED <<evars, w_owns, stop_flag, target_sims, dcfg, w_i,
                   w_sims_to_run, hosts, hret, hpc, harg, hneed, htimed>>

\* lock.unlock(): std::system_error on a lock that is not owned, which
\* leaves the thread function and terminates the process
W_unlock ==
    /\ ~crashed /\ wpc = "w_unlock"
    /\ IF w_owns
       THEN unlock /\ w_owns' = FALSE /\ wpc' = "w_min" /\ UNCHANGED crashed
       ELSE crashed' = TRUE /\ UNCHANGED <<mutex, w_owns, wpc>>
    /\ UNCHANGED <<game, cfg, tree, root, last, playouts, stop_flag,
                   target_sims, dcfg, w_i, w_sims_to_run, hosts, hret, hpc, harg,
                   hneed, htimed>>

\* sims_to_run = min(sim_increment_, target_sims_.load()), and the
\* sim_increment_ == 0 guard: store(0); continue, with the lock released
W_min ==
    /\ ~crashed /\ wpc = "w_min"
    /\ IF dcfg.sim_increment = 0
       THEN target_sims' = 0 /\ wpc' = "w_loop" /\ UNCHANGED <<w_i, w_sims_to_run>>
       ELSE /\ w_sims_to_run' = Min2(dcfg.sim_increment, target_sims)
            /\ w_i' = 0 /\ wpc' = "w_for" /\ UNCHANGED target_sims
    /\ UNCHANGED <<evars, mutex, w_owns, stop_flag, dcfg, hosts, hret, hpc, harg,
                   hneed, htimed>>

\* i < sims_to_run && !stop_flag_ && target_sims_.load() > 0, else the
\* loop is left for lock.lock() and its locals are gone
W_for ==
    /\ ~crashed /\ wpc = "w_for"
    /\ IF w_i < w_sims_to_run /\ ~stop_flag /\ target_sims > 0
       THEN /\ playouts < MaxWorkerSims /\ wpc' = "w_rs_lock"
            /\ UNCHANGED <<w_i, w_sims_to_run>>
       ELSE wpc' = "w_relock" /\ w_i' = 0 /\ w_sims_to_run' = 0
    /\ UNCHANGED <<evars, mutex, w_owns, stop_flag, target_sims, dcfg, hosts, hret,
                   hpc, harg, hneed, htimed>>

\* run_simulation: std::lock_guard<std::mutex> lock(mutex_)
W_rs_lock ==
    /\ ~crashed /\ wpc = "w_rs_lock"
    /\ lock("w") /\ wpc' = "w_rs_sim"
    /\ UNCHANGED <<evars, w_owns, stop_flag, target_sims, dcfg, w_i,
                   w_sims_to_run, hosts, hret, hpc, harg, hneed, htimed>>

\* run_simulation: tree_->simulate(1, ...), every exception swallowed,
\* and the lock_guard released; last.st keeps how the simulation ended
W_rs_sim ==
    /\ ~crashed /\ wpc = "w_rs_sim"
    /\ \E o \in simulate(tree, root, 1, cfg) :
        /\ tree' = o.t
        /\ crashed' = (o.st = "crash")
        /\ last' = [last EXCEPT !.st = o.st]
    /\ playouts' = playouts + 1
    /\ unlock /\ wpc' = "w_sub"
    /\ UNCHANGED <<game, cfg, root, w_owns, stop_flag, target_sims, dcfg,
                   w_i, w_sims_to_run, hosts, hret, hpc, harg, hneed, htimed>>

\* target_sims_.fetch_sub(1); ++i
W_sub ==
    /\ ~crashed /\ wpc = "w_sub"
    /\ target_sims' = (target_sims - 1) % SIZE_MOD
    /\ w_i' = w_i + 1 /\ wpc' = "w_for"
    /\ UNCHANGED <<evars, mutex, w_owns, stop_flag, dcfg, w_sims_to_run,
                   hosts, hret, hpc, harg, hneed, htimed>>

\* lock.lock()
W_relock ==
    /\ ~crashed /\ wpc = "w_relock"
    /\ lock("w") /\ w_owns' = TRUE /\ wpc' = "w_loop"
    /\ UNCHANGED <<evars, stop_flag, target_sims, dcfg, w_i, w_sims_to_run,
                   hosts, hret, hpc, harg, hneed, htimed>>

\* the loop is left: ~unique_lock unlocks the mutex if the lock owns it
W_exit ==
    /\ ~crashed /\ wpc = "w_exit"
    /\ IF w_owns THEN unlock /\ w_owns' = FALSE ELSE UNCHANGED <<mutex, w_owns>>
    /\ wpc' = "w_done"
    /\ UNCHANGED <<evars, stop_flag, target_sims, dcfg, w_i, w_sims_to_run,
                   hosts, hret, hpc, harg, hneed, htimed>>

(*----------------------------- host calls -------------------------------*)
\* a host thread enters a call; no call is started on a threaded_tree
\* whose destructor has begun
Idle(h) == ~crashed /\ hpc[h] = "idle" /\ \A g \in hosts : hpc[g] \notin {"dt_stop", "dt_notify", "dt_join", "destroyed"}

\* make_move(action, flip) is called
H_make_move(h) ==
    /\ Idle(h)
    /\ \E choice \in 0..Len(state(root).subs) :
        harg' = [harg EXCEPT ![h] = choice]
    /\ goto(h, "mm_lock")
    /\ UNCHANGED <<evars, mutex, w_owns, stop_flag, target_sims, dcfg, wpc,
                   w_i, w_sims_to_run, hosts, hret, hneed, htimed>>

\* get_sorted_actions(flip) is called
H_get_sorted_actions(h) ==
    /\ Idle(h)
    /\ goto(h, "gs_lock")
    /\ UNCHANGED <<evars, mutex, w_owns, stop_flag, target_sims, dcfg, wpc,
                   w_i, w_sims_to_run, hosts, hret, harg, hneed, htimed>>

\* variant: ensure_sims without its sim_increment_ == 0 guard
H_ensure_sims_no_guard(h) ==
    /\ Idle(h)
    /\ \E sims \in 0..MaxEnsure : harg' = [harg EXCEPT ![h] = sims]
    /\ htimed' = [htimed EXCEPT ![h] = FALSE]
    /\ goto(h, "es_lock1")
    /\ UNCHANGED <<evars, mutex, w_owns, stop_flag, target_sims, dcfg, wpc,
                   w_i, w_sims_to_run, hosts, hret, hneed>>

\* ensure_sims(sims) is called: if (sim_increment_ == 0) return
H_ensure_sims(h) ==
    /\ Idle(h)
    /\ \E sims \in 0..MaxEnsure : harg' = [harg EXCEPT ![h] = sims]
    /\ htimed' = [htimed EXCEPT ![h] = FALSE]
    /\ goto(h, IF dcfg.sim_increment = 0 THEN "es_ret" ELSE "es_lock1")
    /\ UNCHANGED <<evars, mutex, w_owns, stop_flag, target_sims, dcfg, wpc,
                   w_i, w_sims_to_run, hosts, hret, hneed>>

\* set_state_and_make_best_move(board, flip) is called
H_set_state(h) ==
    /\ Idle(h)
    /\ \E board \in Nodes : harg' = [harg EXCEPT ![h] = board]
    /\ goto(h, "ss_lock")
    /\ UNCHANGED <<evars, mutex, w_owns, stop_flag, target_sims, dcfg, wpc,
                   w_i, w_sims_to_run, hosts, hret, hneed, htimed>>

\* the threaded_tree is destroyed
H_destroy(h) ==
    /\ Idle(h)
    /\ goto(h, "dt_stop")
    /\ UNCHANGED <<evars, mutex, w_owns, stop_flag, target_sims, dcfg, wpc,
                   w_i, w_sims_to_run, hosts, hret, harg, hneed, htimed>>

\* std::lock_guard<std::mutex> lock(mutex_) at the head of a call, and
\* mutex_.lock() in set_state_and_make_best_move
AfterLock(pc) ==
    CASE pc = "mm_lock" -> "mm_in"
      [] pc = "gs_lock" -> "gs_in"
      [] pc = "es_lock1" -> "es_read1"
      [] pc = "es_lock2" -> "es_read2"
      [] pc = "ss_lock" -> "ss_new"
      [] pc = "ss_relock" -> "ss_cba"
      [] OTHER -> "none"
H_lock(h) ==
    /\ ~crashed /\ AfterLock(hpc[h]) # "none"
    /\ lock(h) /\ goto(h, AfterLock(hpc[h]))
    /\ UNCHANGED <<evars, w_owns, stop_flag, target_sims, dcfg, wpc, w_i,
                   w_sims_to_run, hosts, hret, harg, hneed, htimed>>

\* make_move: tree_ = tree_->make_move(action, flip), or the
\* runtime_error that leaves tree_ as it was
H_mm_in(h) ==
    /\ ~crashed /\ hpc[h] = "mm_in"
    /\ LET o == make_move(tree, root, harg[h])
       IN  /\ tree' = o.t
           /\ root' = IF o.st = "ok" THEN o.ret ELSE root
           /\ result(h, "mm_ret", o.st, <<>>)
    /\ unlock
    /\ UNCHANGED <<game, cfg, last, crashed, playouts, w_owns, stop_flag,
                   target_sims, dcfg, wpc, w_i, w_sims_to_run, hosts, harg,
                   hneed, htimed>>

\* get_sorted_actions: return tree_->get_sorted_actions(flip)
H_gs_in(h) ==
    /\ ~crashed /\ hpc[h] = "gs_in"
    /\ LET o == get_sorted_actions(tree, root)
       IN  /\ tree' = o.t
           /\ result(h, "gs_ret", o.st, o.ret)
    /\ unlock
    /\ UNCHANGED <<game, cfg, root, last, crashed, playouts, w_owns, stop_flag,
                   target_sims, dcfg, wpc, w_i, w_sims_to_run, hosts, harg,
                   hneed, htimed>>

\* variant: the visits already there are not subtracted
needed_sims_all(sims, current_visits) == sims
\* ensure_sims: current_visits = tree_->get_visit_count() in its own
\* scope, then if (current_visits < sims) needed_sims = sims - current_visits
needed_sims(sims, current_visits) == sims - current_visits
\* variant: simulations are requested also when current_visits = sims
H_es_read1_le(h) ==
    /\ ~crashed /\ hpc[h] = "es_read1"
    /\ LET current_visits == get_visit_count(tree, root)
       IN  IF current_visits <= harg[h]
           THEN /\ hneed' = [hneed EXCEPT ![h] = needed_sims(harg[h], current_visits)]
                /\ goto(h, "es_store")
           ELSE UNCHANGED hneed /\ goto(h, "es_ret")
    /\ unlock
    /\ UNCHANGED <<evars, w_owns, stop_flag, target_sims, dcfg, wpc, w_i,
                   w_sims_to_run, hosts, hret, harg, htimed>>

H_es_read1(h) ==
    /\ ~crashed /\ hpc[h] = "es_read1"
    /\ LET current_visits == get_visit_count(tree, root)
       IN  IF current_visits < harg[h]
           THEN /\ hneed' = [hneed EXCEPT ![h] = needed_sims(harg[h], current_visits)]
                /\ goto(h, "es_store")
           ELSE UNCHANGED hneed /\ goto(h, "es_ret")
    /\ unlock
    /\ UNCHANGED <<evars, w_owns, stop_flag, target_sims, dcfg, wpc, w_i,
                   w_sims_to_run, hosts, hret, harg, htimed>>

\* target_sims_.store(...) of ensure_sims (needed_sims, then 1) and of
\* set_state_and_make_best_move (min_sims)
H_store(h) ==
    /\ ~crashed /\ hpc[h] \in {"es_store", "es_store2", "ss_store"}
    /\ target_sims' = CASE hpc[h] = "es_store" -> hneed[h]
                        [] hpc[h] = "es_store2" -> 1
                        [] hpc[h] = "ss_store" -> dcfg.min_sims
    /\ goto(h, CASE hpc[h] = "es_store" -> "es_notify"
                 [] hpc[h] = "es_store2" -> "es_notify2"
                 [] hpc[h] = "ss_store" -> "ss_notify")
    /\ UNCHANGED <<evars, mutex, w_owns, stop_flag, dcfg, wpc, w_i,
                   w_sims_to_run, hosts, hret, harg, hneed, htimed>>

\* cv_.notify_one() after a store, cv_.notify_all() of the destructor
H_notify(h) ==
    /\ ~crashed /\ hpc[h] \in {"es_notify", "es_notify2", "ss_notify", "dt_notify"}
    /\ notify
    /\ hpc' = [hpc EXCEPT ![h] =
                 CASE hpc[h] = "es_notify" -> "es_poll"
                   [] hpc[h] = "es_notify2" -> "es_poll2"
                   [] hpc[h] = "ss_notify" -> "ss_poll"
                   [] hpc[h] = "dt_notify" -> "dt_join"]
    /\ UNCHANGED <<evars, mutex, w_owns, stop_flag, target_sims, dcfg, w_i,
                   w_sims_to_run, hosts, hret, harg, hneed, htimed>>

\* a polling loop is left because its condition is false; the second
\* loop of ensure_sims is followed by the end of the lock_guard's scope
H_poll_done(h) ==
    /\ ~crashed /\ hpc[h] \in {"es_poll", "es_poll2", "ss_poll"}
    /\ ~polling
    /\ IF hpc[h] = "es_poll2" THEN unlock ELSE UNCHANGED mutex
    /\ goto(h, CASE hpc[h] = "es_poll" -> "es_lock2"
                 [] hpc[h] = "es_poll2" -> "es_ret"
                 [] hpc[h] = "ss_poll" -> "ss_relock")
    /\ UNCHANGED <<evars, w_owns, stop_flag, target_sims, dcfg, wpc, w_i,
                   w_sims_to_run, hosts, hret, harg, hneed, htimed>>

\* the 10 s of a polling loop of ensure_sims elapse while its condition
\* is true: target_sims_.store(0); break
H_timeout(h) ==
    /\ ~crashed /\ hpc[h] \in {"es_poll", "es_poll2"}
    /\ polling
    /\ target_sims' = 0
    /\ htimed' = [htimed EXCEPT ![h] = TRUE]
    /\ IF hpc[h] = "es_poll2" THEN unlock ELSE UNCHANGED mutex
    /\ goto(h, IF hpc[h] = "es_poll" THEN "es_lock2" ELSE "es_ret")
    /\ UNCHANGED <<evars, w_owns, stop_flag, dcfg, wpc, w_i, w_sims_to_run,
                   hosts, hret, harg, hneed>>

\* variant: the second check is skipped
recheck_skipped(final_visits, sims) == FALSE
\* ensure_sims: final_visits < sims && sim_increment_ > 0, under the lock
recheck(final_visits, sims) == final_visits < sims /\ dcfg.sim_increment > 0
H_es_read2(h) ==
    /\ ~crashed /\ hpc[h] = "es_read2"
    /\ IF recheck(get_visit_count(tree, root), harg[h])
       THEN goto(h, "es_store2") /\ UNCHANGED mutex
       ELSE goto(h, "es_ret") /\ unlock
    /\ UNCHANGED <<evars, w_owns, stop_flag, target_sims, dcfg, wpc, w_i,
                   w_sims_to_run, hosts, hret, harg, hneed, htimed>>

\* ensure_sims returns
H_es_ret(h) ==
    /\ ~crashed /\ hpc[h] = "es_ret"
    /\ return(h)
    /\ UNCHANGED <<evars, mutex, w_owns, stop_flag, target_sims, dcfg, wpc,
                   w_i, w_sims_to_run, hosts>>

\* make_move, get_sorted_actions or set_state_and_make_best_move returns
\* or throws its runtime_error to the host
H_ret(h) ==
    /\ ~crashed /\ hpc[h] \in {"mm_ret", "gs_ret", "ss_ret"}
    /\ return(h)
    /\ UNCHANGED <<evars, mutex, w_owns, stop_flag, target_sims, dcfg, wpc,
                   w_i, w_sims_to_run, hosts>>

\* set_state_and_make_best_move: tree_ = make_shared<TREE>(board), then
\* if (min_sims > 0) mutex_.unlock()
H_ss_new(h) ==
    /\ ~crashed /\ hpc[h] = "ss_new"
    /\ tree' = FreshTree(game) /\ root' = harg[h]
    /\ IF dcfg.min_sims > 0
       THEN unlock /\ goto(h, "ss_store")
       ELSE UNCHANGED mutex /\ goto(h, "ss_cba")
    /\ UNCHANGED <<game, cfg, last, crashed, playouts, w_owns, stop_flag,
                   target_sims, dcfg, wpc, w_i, w_sims_to_run, hosts, hret, harg,
                   hneed, htimed>>

\* set_state_and_make_best_move: tree_ = choose_best_action(rand_, 0.0,
\* decide_using_visits_), or the runtime_error; the lock_guard is released
H_ss_cba(h) ==
    /\ ~crashed /\ hpc[h] = "ss_cba"
    /\ \E o \in choose_best_action(tree, root, 0, dcfg.decide_using_visits) :
        /\ tree' = o.t
        /\ root' = IF o.st = "ok" THEN o.ret ELSE root
        /\ result(h, "ss_ret", o.st, o.ret)
    /\ unlock
    /\ UNCHANGED <<game, cfg, last, crashed, playouts, w_owns, stop_flag,
                   target_sims, dcfg, wpc, w_i, w_sims_to_run, hosts, harg,
                   hneed, htimed>>

\* ~threaded_tree: stop_flag_ = true
H_dt_stop(h) ==
    /\ ~crashed /\ hpc[h] = "dt_stop"
    /\ stop_flag' = TRUE /\ goto(h, "dt_notify")
    /\ UNCHANGED <<evars, mutex, w_owns, target_sims, dcfg, wpc, w_i,
                   w_sims_to_run, hosts, hret, harg, hneed, htimed>>

\* ~threaded_tree: worker_.join() returns once the worker has left
\* worker_thread
H_dt_join(h) ==
    /\ ~crashed /\ hpc[h] = "dt_join" /\ wpc = "w_done"
    /\ goto(h, "destroyed")
    /\ UNCHANGED <<evars, mutex, w_owns, stop_flag, target_sims, dcfg, wpc,
                   w_i, w_sims_to_run, hosts, hret, harg, hneed, htimed>>

Worker ==
    \/ W_start \/ W_loop \/ W_read \/ W_wait \/ W_spurious \/ W_woken
    \/ W_unlock \/ W_min \/ W_for \/ W_rs_lock \/ W_rs_sim \/ W_sub
    \/ W_relock \/ W_exit
Host(h) ==
    \/ H_make_move(h) \/ H_get_sorted_actions(h) \/ H_ensure_sims(h)
    \/ H_set_state(h) \/ H_destroy(h) \/ H_lock(h) \/ H_mm_in(h) \/ H_gs_in(h)
    \/ H_es_read1(h) \/ H_store(h) \/ H_notify(h) \/ H_poll_done(h)
    \/ H_timeout(h) \/ H_es_read2(h) \/ H_es_ret(h) \/ H_ss_new(h)
    \/ H_ss_cba(h) \/ H_ret(h) \/ H_dt_stop(h) \/ H_dt_join(h)
NextDriver == Worker \/ \E h \in hosts : Host(h)

SpecDriver == InitDriver /\ [][NextDriver]_vars

(*------------------- a fixed sequence of host calls ---------------------*)
\* one host makes the calls ensure_sims(n), get_sorted_actions, and then
\* destroys the driver; `last` records the call the host has reached
InitScript ==
    /\ InitDriver
    /\ dcfg.sim_increment > 0
    /\ game.kind # "T"

Script(h, op) == [last EXCEPT !.op = op, !.arg = harg'[h]]

\* the first call: ensure_sims(sims)
S_ensure_sims(h) ==
    /\ Idle(h) /\ last.op = "new"
    /\ \E sims \in 1..MaxEnsure : harg' = [harg EXCEPT ![h] = sims]
    /\ htimed' = [htimed EXCEPT ![h] = FALSE]
    /\ goto(h, IF dcfg.sim_increment = 0 THEN "es_ret" ELSE "es_lock1")
    /\ last' = Script(h, "ensure_sims")
    /\ UNCHANGED <<game, cfg, tree, root, crashed, playouts, mutex, w_owns,
                   stop_flag, target_sims, dcfg, wpc, w_i, w_sims_to_run,
                   hosts, hret, hneed>>

\* the second call: get_sorted_actions; the argument of ensure_sims is
\* kept in `last`
S_get_sorted_actions(h) ==
    /\ Idle(h) /\ last.op = "ensure_sims"
    /\ goto(h, "gs_lock")
    /\ last' = [last EXCEPT !.op = "get_sorted_actions"]
    /\ UNCHANGED <<game, cfg, tree, root, crashed, playouts, mutex, w_owns,
                   stop_flag, target_sims, dcfg, wpc, w_i, w_sims_to_run,
                   hosts, hret, harg, hneed, htimed>>

\* at the end the driver is destroyed
S_destroy(h) ==
    /\ Idle(h) /\ last.op = "get_sorted_actions"
    /\ goto(h, "dt_stop")
    /\ last' = [last EXCEPT !.op = "destroy"]
    /\ UNCHANGED <<game, cfg, tree, root, crashed, playouts, mutex, w_owns,
                   stop_flag, target_sims, dcfg, wpc, w_i, w_sims_to_run,
                   hosts, hret, harg, hneed, htimed>>

HostScript(h) ==
    \/ S_ensure_sims(h) \/ S_get_sorted_actions(h) \/ S_destroy(h)
    \/ H_lock(h) \/ H_gs_in(h) \/ H_es_read1(h) \/ H_store(h) \/ H_notify(h)
    \/ H_poll_done(h) \/ H_timeout(h) \/ H_es_read2(h) \/ H_es_ret(h)
    \/ H_ret(h) \/ H_dt_stop(h) \/ H_dt_join(h)
NextScript == Worker \/ \E h \in hosts : HostScript(h)

SpecScript == InitScript /\ [][NextScript]_vars

(*-------------------------- two host threads ----------------------------*)
\* the driver is shared by two host threads: h1 calls
\* set_state_and_make_best_move on a driver that has not simulated, and
\* while that call waits for its simulations h2 calls make_move and
\* set_state_and_make_best_move; the driver is destroyed when no call is
\* in progress
InitPair ==
    /\ game = Games[6]
    /\ cfg \in DriverConfigs
    /\ tree = FreshTree(game)
    /\ root = <<>>
    /\ last = [op |-> "new", arg |-> 0, flag |-> FALSE, st |-> "ok", out |-> <<>>,
               fresh |-> FALSE]
    /\ crashed = FALSE
    /\ playouts = 0
    /\ mutex = "none" /\ w_owns = FALSE /\ stop_flag = FALSE /\ target_sims = 0
    /\ dcfg \in {d \in DriverSettings : d.sim_increment > 0 /\ d.min_sims > 0}
    /\ wpc = "w_start" /\ w_i = 0 /\ w_sims_to_run = 0
    /\ hosts = {"h1", "h2"}
    /\ hpc = [h \in hosts |-> "idle"]
    /\ harg = [h \in hosts |-> 0]
    /\ hneed = [h \in hosts |-> 0]
    /\ htimed = [h \in hosts |-> FALSE]
    /\ hret = [h \in hosts |-> NoResult]

HostPair(h) ==
    \/ (h = "h1" /\ playouts = 0 /\ H_set_state(h))
    \/ (h = "h2" /\ hpc["h1"] = "ss_poll" /\ (H_make_move(h) \/ H_set_state(h)))
    \/ ((\A g \in hosts : hpc[g] = "idle") /\ h = "h1" /\ H_destroy(h))
    \/ H_lock(h) \/ H_mm_in(h) \/ H_store(h) \/ H_notify(h) \/ H_poll_done(h)
    \/ H_ss_new(h) \/ H_ss_cba(h) \/ H_ret(h) \/ H_dt_stop(h) \/ H_dt_join(h)
NextPair == Worker \/ \E h \in hosts : HostPair(h)

SpecPair == InitPair /\ [][NextPair]_vars

(*----------------------- destruction during a call ----------------------*)
\* h1 calls ensure_sims and h2 destroys the driver, at any moment
InitCancel ==
    /\ game \in DriverGames
    /\ cfg \in DriverConfigs
    /\ tree = FreshTree(game)
    /\ root = <<>>
    /\ last = [op |-> "new", arg |-> 0, flag |-> FALSE, st |-> "ok", out |-> <<>>,
               fresh |-> FALSE]
    /\ crashed = FALSE
    /\ playouts = 0
    /\ mutex = "none" /\ w_owns = FALSE /\ stop_flag = FALSE /\ target_sims = 0
    /\ dcfg \in {d \in DriverSettings : d.sim_increment > 0 /\ d.min_sims = 0}
    /\ wpc = "w_start" /\ w_i = 0 /\ w_sims_to_run = 0
    /\ hosts = {"h1", "h2"}
    /\ hpc = [h \in hosts |-> "idle"]
    /\ harg = [h \in hosts |-> 0]
    /\ hneed = [h \in hosts |-> 0]
    /\ htimed = [h \in hosts |-> FALSE]
    /\ hret = [h \in hosts |-> NoResult]

\* the destructor has returned while a call is still running: every
\* further access of the call to a member is undefined; it goes on
\* reading the released storage, or the process is terminated
UseAfterDestroy ==
    /\ ~crashed
    /\ \E g \in hosts : hpc[g] = "destroyed"
    /\ \E h \in hosts : hpc[h] \notin {"idle", "destroyed"}
    /\ crashed' = TRUE
    /\ UNCHANGED <<game, cfg, tree, root, last, playouts, dvars>>

HostCancel(h) ==
    \/ (h = "h1" /\ H_ensure_sims(h))
    \/ (h = "h2" /\ H_destroy(h))
    \/ H_lock(h) \/ H_es_read1(h) \/ H_store(h) \/ H_notify(h)
    \/ H_poll_done(h) \/ H_timeout(h) \/ H_es_read2(h) \/ H_es_ret(h)
    \/ H_dt_stop(h) \/ H_dt_join(h)
NextCancel == Worker \/ UseAfterDestroy \/ \E h \in hosts : HostCancel(h)

SpecCancel == InitCancel /\ [][NextCancel]_vars

(***************************************************************************)
(* Properties of the engine                                                *)
(***************************************************************************)
\* the node a successful make_move / choose_best_action was called on
Front(p) == SubSeq(p, 1, Len(p) - 1)
IsPrefix(p, q) == Len(p) <= Len(q) /\ SubSeq(q, 1, Len(p)) = p
Kids(p) == SeqRange(tree[p].children)
\* a terminal child whose equity (child's perspective) is negative
IsWinning(p) == is_terminal(p) /\ is_evaluated(tree, p) /\ get_equity(tree, p).n < 0
Chose == last.op = "choose_best_action" /\ last.st = "ok"
\* the greedy tier was the one that decided
GreedyTier ==
    /\ Chose /\ last.arg = 0
    /\ ~\E k \in Kids(Front(root)) : IsWinning(k)
    /\ ~check_non_terminal_eval(Front(root))
\* -child.get_equity() of a >= that of b, for evaluated children
NegEquityGE(a, b) ==
    RatGE([n |-> -get_equity(tree, a).n, d |-> get_equity(tree, a).d],
          [n |-> -get_equity(tree, b).n, d |-> get_equity(tree, b).d])

\* C1: after simulate(n), n >= 1, on a fresh non-terminal root the root's
\* visit_count is n + 1
C1_FreshRootVisits ==
    (last.op = "simulate" /\ last.st = "ok" /\ last.fresh /\ last.arg >= 1)
        => tree[root].visit_count = last.arg + 1

\* C6: when some child is terminal with negative equity, the child that
\* choose_best_action returns is such a child
C6_WinningOverride ==
    (Chose /\ \E k \in Kids(Front(root)) : IsWinning(k)) => IsWinning(root)

C8_GreedyMaxEquity ==
    (GreedyTier /\ ~last.flag)
        => \A k \in Kids(Front(root)) : NegEquityGE(root, k)

\* C9: the root has no parent back-reference after make_move, and a simulate
\* changes no statistic of a node outside the subtree of the root
C9_Stats(t, p) == <<t[p].Q_sum, t[p].visit_count, t[p].eval_Q>>
C9_BackpropStopsAtRoot ==
    [][ /\ (last'.op = "make_move" /\ last'.st = "ok") => tree'[root'].parent = NULL
        /\ last'.op = "simulate"
             => \A p \in Nodes : ~IsPrefix(root, p) => C9_Stats(tree', p) = C9_Stats(tree, p)
      ]_vars
C9_Witness ==
    /\ last.op = "simulate" /\ last.st = "ok" /\ last.arg >= 1
    /\ root # <<>> /\ tree[root].parent = NULL
    /\ tree[root].visit_count > 0
    /\ tree[<<>>].visit_count > 0
    /\ \E k \in Kids(<<>>) : k # root /\ is_evaluated(tree, k)

\* C10: every evaluated node has eval_Q in [-1, +1] and, with visits,
\* |Q_sum| <= visit_count, so that get_equity does not raise
C10_EquityBound ==
    \A p \in Nodes :
        is_evaluated(tree, p)
            => /\ tree[p].eval_Q >= -ONE /\ tree[p].eval_Q <= ONE
               /\ tree[p].visit_count > 0
                    => Abs(tree[p].Q_sum) <= ONE * tree[p].visit_count
               /\ get_equity(tree, p).st = "ok"
C10_Witness ==
    /\ last.op = "simulate" /\ last.st = "ok"
    /\ \E p \in Nodes : /\ tree[p].visit_count >= 2
                        /\ Abs(tree[p].Q_sum) = ONE * tree[p].visit_count
    /\ \E p \in Nodes : tree[p].visit_count > 0 /\ tree[p].Q_sum < 0


(***************************************************************************)
(* Properties of threaded_tree                                             *)
(***************************************************************************)
Threads == hosts \cup {"w"}
\* the thread is inside a call on the tree: a playout of the worker, or
\* the engine call of make_move, get_sorted_actions, ensure_sims
\* (get_visit_count) or set_state_and_make_best_move of a host
InEngineOp(th) ==
    IF th = "w" THEN wpc = "w_rs_sim"
    ELSE hpc[th] \in {"mm_in", "gs_in", "es_read1", "es_read2", "ss_new", "ss_cba"}
\* a host stands between a store to target_sims_ and its notification
NotifyPending == \E h \in hosts : hpc[h] \in {"es_notify", "es_notify2", "ss_notify", "dt_notify"}

\* C2: a thread that is inside a tree operation (a worker playout, or a
\* host's make_move, get_sorted_actions, set_state_and_make_best_move or
\* visit-count read) holds the driver mutex, so at most one thread is
\* inside the tree at a time and no make_move falls between the selection
\* and the backpropagation of a playout
C2_MutualExclusion ==
    ~crashed => \A th \in Threads : InEngineOp(th) => mutex = th

\* C3: the worker is never blocked on the condition variable while
\* target_sims is positive, the stop flag is clear and no notification is
\* still to come
C3_NoLostWakeup ==
    ~(/\ ~crashed /\ wpc = "w_blocked" /\ target_sims > 0 /\ ~stop_flag
      /\ ~NotifyPending)

C5_DestructorJoins ==
    ~(/\ ~crashed /\ wpc = "w_blocked"
      /\ \E h \in hosts : hpc[h] = "dt_join")


(***************************************************************************)
(* Properties of the queries and of the failure paths                      *)
(***************************************************************************)
\* the child of the root a reported tuple stands for
C11_Child(m) == tree[root].children[m.text]
\* the tuple m is not below the tuple k in (equity, rank, visit_count)
C11_NotBelow(m, k) ==
    \/ RatGT(m.equity, k.equity)
    \/ /\ RatGE(m.equity, k.equity)
       /\ \/ get_non_terminal_rank(C11_Child(m)) > get_non_terminal_rank(C11_Child(k))
          \/ /\ get_non_terminal_rank(C11_Child(m)) = get_non_terminal_rank(C11_Child(k))
             /\ m.visit_count >= k.visit_count

NodeStats(t, p) ==
    <<t[p].eval_Q, t[p].Q_sum, t[p].visit_count, t[p].all_children_evaluated>>

\* C13: simulate(0) raises no error and leaves eval_Q (hence
\* is_evaluated), Q_sum, visit_count and all_children_evaluated of every
\* node unchanged
C13_SimulateZeroNoOp ==
    [][ (last'.op = "simulate" /\ last'.arg = 0)
          => /\ last'.st = "ok"
             /\ \A p \in Nodes : NodeStats(tree', p) = NodeStats(tree, p)
      ]_vars


C15_IllegalMove ==
    [][ \A h \in hosts :
          (hpc[h] = "mm_in" /\ hpc'[h] = "mm_ret"
             /\ harg[h] >= Len(state(root).subs))
            => /\ hret'[h].st = "throw"
               /\ root' = root
               /\ \A p \in DOMAIN tree :
                    /\ tree[p].parent # NULL => tree'[p].parent = tree[p].parent
                    /\ NodeStats(tree', p) = NodeStats(tree, p)
      ]_vars
\* a make_move has failed on a root that has visits and children
C15_Witness ==
    \E h \in hosts :
        /\ hpc[h] = "mm_ret" /\ hret[h].st = "throw"
        /\ tree[root].visit_count > 0
        /\ Len(tree[root].children) > 0
        /\ \A i \in 1..Len(tree[root].children) :
             tree[tree[root].children[i]].parent = root


\* C16: choose_best_action with epsilon outside [0,1] fails before any
\* other effect: the tree and the root are as before (no child orphaned,
\* no statistic changed), and the call has a single outcome (no random
\* draw decides anything)
C16_EpsilonRange ==
    [][ (last'.op = "choose_best_action" /\ (last'.arg < 0 \/ last'.arg > 1000))
          => /\ last'.st = "throw"
             /\ tree' = tree /\ root' = root
             /\ Cardinality(choose_best_action(tree, root, last'.arg, last'.flag)) = 1
      ]_vars
\* the call failed on a root with visited children
C16_Witness ==
    /\ last.op = "choose_best_action" /\ last.st = "throw" /\ last.arg > 1000
    /\ tree[root].visit_count > 0
    /\ \E i \in 1..Len(tree[root].children) :
         tree[tree[root].children[i]].visit_count > 0


\* C17: an ensure_sims(n) that reads a root visit count >= n returns at
\* once: from that read to its return it does not write target_sims, does
\* not notify the worker and does not touch the tree
C17_EnsureSimsImmediate ==
    [][ \A h \in hosts :
          /\ (hpc[h] = "es_read1" /\ hpc'[h] # "es_read1"
                /\ get_visit_count(tree, root) >= harg[h])
               => /\ hpc'[h] = "es_ret" /\ hneed'[h] = 0
                  /\ target_sims' = target_sims /\ wpc' = wpc
                  /\ tree' = tree /\ playouts' = playouts
          /\ (hpc[h] = "es_ret" /\ hpc'[h] # "es_ret")
               => /\ hpc'[h] = "idle"
                  /\ target_sims' = target_sims /\ wpc' = wpc
                  /\ tree' = tree /\ playouts' = playouts
      ]_vars
\* a second ensure_sims(n), n >= 1, returns without having requested
\* anything, the worker having run simulations before
C17_Witness ==
    \E h \in hosts :
        /\ hpc[h] = "es_ret" /\ hneed[h] = 0 /\ harg[h] >= 1
        /\ dcfg.sim_increment > 0
        /\ get_visit_count(tree, root) >= harg[h]
        /\ playouts = get_visit_count(tree, root)
        /\ target_sims = 0


\* a step of host h out of position pc
C18_StepFrom(h, pc) == hpc[h] = pc /\ hpc'[h] # pc

\* C18: with sim_increment = 0 an ensure_sims goes from its call straight
\* to its return and changes neither target_sims nor the tree; the worker
\* never enters its simulation loop; and the statistics of the nodes
\* change in no step other than those of make_move and
\* set_state_and_make_best_move
C18_ZeroIncrementInert ==
    [][ dcfg.sim_increment = 0 =>
          /\ playouts' = 0
          /\ wpc' \notin {"w_for", "w_rs_lock", "w_rs_sim", "w_sub", "w_relock"}
          /\ \A h \in hosts :
               /\ hpc'[h] \notin {"es_lock1", "es_read1", "es_store", "es_notify",
                                  "es_poll", "es_lock2", "es_read2", "es_store2",
                                  "es_notify2", "es_poll2"}
               /\ (C18_StepFrom(h, "idle") /\ hpc'[h] = "es_ret")
                    => target_sims' = target_sims /\ tree' = tree /\ root' = root
               /\ C18_StepFrom(h, "es_ret")
                    => target_sims' = target_sims /\ tree' = tree /\ root' = root
          /\ (\A h \in hosts : ~C18_StepFrom(h, "mm_in") /\ ~C18_StepFrom(h, "ss_new")
                                 /\ ~C18_StepFrom(h, "ss_cba"))
               => \A p \in DOMAIN tree : NodeStats(tree', p) = NodeStats(tree, p)
      ]_vars
\* an ensure_sims(n), n >= 1, returns in a driver with sim_increment = 0
\* whose worker has been through its zero-increment guard
C18_Witness ==
    \E h \in hosts :
        /\ dcfg.sim_increment = 0
        /\ hpc[h] = "es_ret" /\ harg[h] >= 1
        /\ wpc = "w_blocked" /\ ~w_owns
        /\ get_visit_count(tree, root) < harg[h]


\* the visit counts of a report, summed
RECURSIVE C12_Visits(_)
C12_Visits(out) ==
    IF out = <<>> THEN 0 ELSE Head(out).visit_count + C12_Visits(Tail(out))

\* C12: the report of get_sorted_actions after ensure_sims(n) on a new
\* driver does not depend on the schedule.  Whatever the random draws, a
\* playout adds one visit to exactly one child of the root, and the
\* schedule in which the worker is woken and left to finish runs n
\* playouts: so in every schedule the visit counts reported sum to n
C12_SameReport ==
    \A h \in hosts :
        (last.op = "get_sorted_actions" /\ hpc[h] = "gs_ret")
            => C12_Visits(hret[h].out) = last.arg
\* the schedule in which the report sums to n
C12_Reference ==
    \E h \in hosts :
        /\ last.op = "get_sorted_actions" /\ hpc[h] = "gs_ret"
        /\ C12_Visits(hret[h].out) = last.arg
        /\ playouts = last.arg


\* C20: set_state_and_make_best_move ends with the runtime_error "No legal
\* moves available" exactly when the board it was given has no legal move
C20_NoLegalMovesExactly ==
    \A h \in hosts :
        hpc[h] = "ss_ret"
            => (hret[h].st = "throw" <=> Len(state(harg[h]).subs) = 0)


\* C19: when set_state_and_make_best_move(board) returns a move, the move
\* is a child of the node created for board and the driver's root is that
\* child, also when another host thread calls the driver in between
C19_SetStateAtomic ==
    [][\A h \in hosts :
        (hpc[h] = "ss_cba" /\ hpc'[h] = "ss_ret" /\ hret'[h].st = "ok")
            => (Front(hret'[h].out) = harg[h] /\ root' = hret'[h].out)]_vars


(***************************************************************************)
(* Properties of the worker                                                *)
(***************************************************************************)
\* C21: target_sims is not decremented for an iteration whose simulation
\* failed: the worker's fetch_sub after a simulate that threw leaves
\* target_sims as it was
C21_NoDecrementOnFailure ==
    [][(wpc = "w_sub" /\ wpc' = "w_for" /\ last.st = "throw")
          => target_sims' = target_sims]_vars


C23_SecondWaitLetsWorkerRun ==
    \A h \in hosts : (hpc[h] = "es_poll2" /\ polling) => mutex # h

\* C24: target_sims never exceeds the largest value a host stores (the
\* worker does not decrement it when it is 0)
C24_NoUnderflow ==
    target_sims <= Max2(MaxEnsure, Max2(MaxMinSims, 1))


\* C25: the worker owns the mutex at each evaluation of its loop head, at
\* each cv_.wait and at each lock.unlock()
C25_WorkerLockDiscipline ==
    (~crashed /\ wpc \in {"w_loop", "w_read", "w_wait", "w_unlock"})
        => (w_owns /\ mutex = "w")


(***************************************************************************)
(* Properties of select                                                    *)
(***************************************************************************)
\* C26: on a root that simulate accepts, select scores children with
\* N >= 0 and a defined score and so ends with a valid child, whatever
\* use_puct and eval_children are (priors not used)
C26_SelectPicksChild ==
    (/\ ~crashed /\ ~cfg.use_probs
     /\ is_evaluated(tree, root) /\ ~is_terminal(root)
     /\ Len(state(root).subs) > 0)
        => \A o \in select(tree, root, cfg.use_puct, cfg.use_probs) : o.st = "ok"


\* the visit counts of the children in kids, summed
RECURSIVE C27_ChildVisits(_, _)
C27_ChildVisits(t, kids) ==
    IF kids = <<>> THEN 0
    ELSE t[Head(kids)].visit_count + C27_ChildVisits(t, Tail(kids))

\* C27: after a completed simulate every evaluated node of the tree that
\* is neither terminal nor exact-evaluated and has visit_count > 0, the
\* root included, has visit_count - 1 equal to the sum of its children's
\* visit counts
C27_ParentVisits ==
    (last.op = "simulate" /\ last.st = "ok")
        => \A p \in Nodes :
              (/\ IsPrefix(root, p) /\ is_evaluated(tree, p)
               /\ ~is_terminal(p) /\ ~check_non_terminal_eval(p)
               /\ tree[p].visit_count > 0)
                  => tree[p].visit_count - 1
                        = C27_ChildVisits(tree, tree[p].children)


\* C28: with use_probs, at a root without priors whose children select
\* scores (all evaluated, the score defined), eval_probs is not indexed:
\* the pass of select is the one made without use_probs, by Q + c U
C28_PriorsOnlyWhenPresent ==
    LET t == get_children(tree, root)
    IN  (/\ ~crashed /\ cfg.use_probs
         /\ is_evaluated(tree, root) /\ ~is_terminal(root)
         /\ Len(t[root].children) > 0
         /\ \A i \in 1..Len(t[root].children) : is_evaluated(t, t[root].children[i])
         /\ ~score_is_nan(tree, root, cfg.use_puct)
         /\ tree[root].eval_probs = <<>>)
            => select_step(tree, root, cfg.use_puct, TRUE)
                  = select_step(tree, root, cfg.use_puct, FALSE)


\* C29: a simulate(1) on an evaluated root whose all_children_evaluated
\* flag is false and that has an unevaluated child descends into an
\* unevaluated child and stops there: no evaluated child of the root is
\* visited, and one child that was unevaluated is evaluated and visited
\* once
C29_UnexploredFirst ==
    [][LET K == 1..Len(state(root).subs)
           kid(i) == Append(root, i)
       IN  (/\ last'.op = "simulate" /\ last'.arg = 1 /\ last'.st = "ok"
            /\ is_evaluated(tree, root) /\ ~tree[root].all_children_evaluated
            /\ \E i \in K : ~is_evaluated(tree, kid(i)))
               => /\ \A i \in K : is_evaluated(tree, kid(i))
                                     => tree'[kid(i)] = tree[kid(i)]
                  /\ \E i \in K : /\ ~is_evaluated(tree, kid(i))
                                  /\ is_evaluated(tree', kid(i))
                                  /\ tree'[kid(i)].visit_count = 1]_vars
\* such a simulate(1) was made on a root that had an evaluated child
\* beside the unevaluated one it took
C29_Witness ==
    /\ last.op = "simulate" /\ last.arg = 1 /\ last.st = "ok" /\ ~last.fresh
    /\ ~tree[root].all_children_evaluated
    /\ \E i, j \in 1..Len(state(root).subs) :
          /\ i # j
          /\ tree[Append(root, i)].visit_count = 1
          /\ tree[Append(root, j)].visit_count = 1


\* the descent of select stops at leaf
C30_LeafStops(t, leaf) ==
    ~is_evaluated(t, leaf) \/ is_terminal(leaf) \/ check_non_terminal_eval(leaf)
\* C30: on a root that simulate accepts, the leaf that select returns is
\* unevaluated, terminal or exact-evaluated; evaluating it is not a
\* second evaluation of any node, and neither the check of simulate on
\* an evaluated leaf nor the checks of backprop reject it
C30_NoDoubleEval ==
    (/\ ~crashed
     /\ is_evaluated(tree, root) /\ ~is_terminal(root)
     /\ Len(state(root).subs) > 0)
        => \A s \in select(tree, root, cfg.use_puct, cfg.use_probs) :
              s.st = "ok"
                 => /\ C30_LeafStops(s.t, s.leaf)
                    /\ IF is_evaluated(s.t, s.leaf)
                       THEN backprop(s.t, s.leaf).st = "ok"
                       ELSE \A e \in eval(s.t, s.leaf, cfg.use_rollout, cfg.eval_children) :
                               /\ e.st # "throw"
                               /\ e.st = "ok" => backprop(e.t, s.leaf).st = "ok"
\* after a simulate (PUCT scores, no priors, children not evaluated by
\* their parent: every score is defined) select returns a leaf that is
\* terminal and has been evaluated before
C30_Witness ==
    /\ ~crashed /\ last.op = "simulate" /\ last.st = "ok"
    /\ cfg.use_puct /\ ~cfg.use_probs /\ ~cfg.eval_children
    /\ is_evaluated(tree, root) /\ ~is_terminal(root)
    /\ \E s \in select(tree, root, cfg.use_puct, cfg.use_probs) :
          s.st = "ok" /\ is_evaluated(s.t, s.leaf) /\ is_terminal(s.leaf)


(***************************************************************************)
(* Properties of the node statistics                                       *)
(***************************************************************************)
\* the ancestor k parent links above p, NULL past the end of the chain
RECURSIVE C31_Up(_, _, _)
C31_Up(t, p, k) ==
    IF k = 0 \/ p = NULL THEN p ELSE C31_Up(t, t[p].parent, k - 1)

\* C31: a backprop from a leaf with evaluation e adds e, with the sign
\* alternating from + at the leaf, to Q_sum and 1 to visit_count of every
\* node on the parent chain of the leaf, and changes no other node
C31_BackpropChain ==
    \A leaf \in Nodes :
        backprop(tree, leaf).st = "ok"
            => LET t2 == backprop(tree, leaf).t
                   e  == tree[leaf].eval_Q
               IN  \A q \in Nodes :
                      IF \E k \in 0..Len(leaf) : C31_Up(tree, leaf, k) = q
                      THEN LET k == CHOOSE k \in 0..Len(leaf) : C31_Up(tree, leaf, k) = q
                           IN  t2[q] = [tree[q] EXCEPT
                                          !.Q_sum = @ + (IF k % 2 = 0 THEN e ELSE -e),
                                          !.visit_count = @ + 1]
                      ELSE t2[q] = tree[q]
\* a leaf that backprop accepts, with a non-zero evaluation, two
\* ancestors on its chain and a node off the chain
C31_Witness ==
    /\ last.op = "simulate" /\ last.st = "ok"
    /\ \E leaf \in Nodes :
          /\ backprop(tree, leaf).st = "ok"
          /\ tree[leaf].eval_Q # 0 /\ tree[leaf].visit_count > 0
          /\ C31_Up(tree, leaf, 2) # NULL
          /\ \E q \in Nodes : \A k \in 0..Len(leaf) : C31_Up(tree, leaf, k) # q


\* C32: all_children_evaluated never goes from true to false; a node
\* with the flag set has all its children evaluated; and the children of
\* a node whose evaluation was truncated (terminal or exact) are not
\* evaluated with it: below the root such a node has no evaluated child
C32_ChildrenFlag ==
    /\ [](\A p \in Nodes :
            /\ tree[p].all_children_evaluated
                  => /\ Len(tree[p].children) = Len(state(p).subs)
                     /\ \A i \in 1..Len(tree[p].children) :
                           is_evaluated(tree, tree[p].children[i])
            /\ (/\ IsPrefix(root, p) /\ p # root
                /\ (is_terminal(p) \/ check_non_terminal_eval(p)))
                  => /\ ~tree[p].all_children_evaluated
                     /\ \A i \in 1..Len(state(p).subs) :
                           ~is_evaluated(tree, Append(p, i)))
    /\ [][tree' # tree
            => \A p \in Nodes :
                  tree[p].all_children_evaluated
                     => tree'[p].all_children_evaluated]_vars
\* with eval_children, a node has the flag set and an exact-evaluated
\* node below the root has been evaluated, its child left unevaluated
C32_Witness ==
    /\ cfg.eval_children /\ last.op = "simulate" /\ last.st = "ok"
    /\ \E p \in Nodes : tree[p].all_children_evaluated
    /\ \E p \in Nodes :
          /\ IsPrefix(root, p) /\ p # root /\ check_non_terminal_eval(p)
          /\ is_evaluated(tree, p) /\ Len(state(p).subs) > 0
          /\ ~is_evaluated(tree, Append(p, 1))


\* C33: a node with visits is evaluated, a node without visits has
\* Q_sum = 0, visit_count never decreases, and eval_Q of an evaluated
\* node never changes (so an evaluated node stays evaluated)
C33_Lifecycle ==
    /\ [](\A p \in Nodes :
            /\ tree[p].visit_count > 0 => is_evaluated(tree, p)
            /\ tree[p].visit_count = 0 => tree[p].Q_sum = 0)
    /\ [][tree' # tree
            => \A p \in Nodes :
                  /\ tree'[p].visit_count >= tree[p].visit_count
                  /\ is_evaluated(tree, p) => tree'[p].eval_Q = tree[p].eval_Q]_vars
\* the three stages side by side, below a root that a second simulate
\* has been run on
C33_Witness ==
    /\ last.op = "simulate" /\ last.st = "ok" /\ ~last.fresh
    /\ \E p \in Nodes : IsPrefix(root, p) /\ ~is_evaluated(tree, p)
    /\ \E p \in Nodes : /\ IsPrefix(root, p) /\ is_evaluated(tree, p)
                        /\ tree[p].visit_count = 0
    /\ \E p \in Nodes : /\ IsPrefix(root, p) /\ tree[p].visit_count > 0
                        /\ tree[p].Q_sum # 0


(***************************************************************************)
(* Properties of choose_best_action and of rollout                         *)
(***************************************************************************)
\* the lowest index among the children of p of minimum non-terminal rank
C34_MinRank(p) ==
    LET K == 1..Len(state(p).subs)
        rank(i) == get_non_terminal_rank(Append(p, i))
    IN  CHOOSE i \in K : /\ \A j \in K : rank(i) <= rank(j)
                         /\ \A j \in K : rank(j) = rank(i) => i <= j

\* C34: on a node with an exact non-terminal evaluation and no winning
\* terminal child, choose_best_action (epsilon in [0,1]) returns the
\* lowest-index child of minimum non-terminal rank, whatever epsilon,
\* the visit counts and the random draws are
C34_RankChoice ==
    [][(/\ last'.op = "choose_best_action"
        /\ last'.arg >= 0 /\ last'.arg <= 1000
        /\ check_non_terminal_eval(root) /\ Len(state(root).subs) > 0
        /\ \A i \in 1..Len(state(root).subs) :
              ~(is_terminal(Append(root, i)) /\ state(Append(root, i)).val < 0))
          => /\ last'.st = "ok"
             /\ root' = Append(root, C34_MinRank(root))]_vars


(***************************************************************************)
(* rollout::operator() on a game whose play can repeat positions, one loop *)
(* iteration per step: game is the input, last holds the call's locals     *)
(***************************************************************************)
\* the positions of a game with a cycle (1 <-> 2), a forced endless line
\* (5 <-> 6), terminal positions (3, 7) and an exact non-terminal one (4);
\* moves are the positions get_legal_moves yields, by index
RolloutPositions ==
    << [id |-> 1, kind |-> "N", val |-> 0, moves |-> <<2, 3>>],
       [id |-> 2, kind |-> "N", val |-> 0, moves |-> <<1, 4, 7>>],
       [id |-> 3, kind |-> "T", val |-> ONE, moves |-> <<>>],
       [id |-> 4, kind |-> "X", val |-> -1, moves |-> <<1>>],
       [id |-> 5, kind |-> "N", val |-> 0, moves |-> <<6>>],
       [id |-> 6, kind |-> "N", val |-> 0, moves |-> <<5>>],
       [id |-> 7, kind |-> "T", val |-> -ONE, moves |-> <<>>] >>

\* curr_move.is_terminal() || curr_move.check_non_terminal_eval(eval)
rollout_ends(s) == s.kind \in {"T", "X"}

\* G curr_move(input); i = 0; initial_heros_turn = true
InitRollout ==
    /\ game \in SeqRange(RolloutPositions)
    /\ cfg = [use_rollout |-> TRUE, eval_children |-> FALSE, use_puct |-> FALSE,
              use_probs |-> FALSE]
    /\ tree = <<>>
    /\ root = <<>>
    /\ last = [op |-> "rollout", st |-> "run", input |-> game, curr_move |-> game,
               i |-> 0, initial_heros_turn |-> TRUE, ret |-> 0]
    /\ crashed = FALSE
    /\ playouts = 0
    /\ NoDriver

\* the two return statements of the loop body
R_return ==
    /\ last.st = "run" /\ last.i < MAX_ROLLOUT_ITERS
    /\ rollout_ends(last.curr_move)
    /\ last' = [last EXCEPT !.st = "ok",
                            !.ret = IF last.initial_heros_turn
                                    THEN last.curr_move.val
                                    ELSE -last.curr_move.val]
    /\ UNCHANGED <<game, cfg, tree, root, crashed, playouts, dvars>>

\* a random legal move, the turn flipped, ++i
R_move ==
    /\ last.st = "run" /\ last.i < MAX_ROLLOUT_ITERS
    /\ ~rollout_ends(last.curr_move)
    /\ \E random_index \in 1..Len(last.curr_move.moves) :
          last' = [last EXCEPT
                     !.curr_move = RolloutPositions[last.curr_move.moves[random_index]],
                     !.initial_heros_turn = ~@,
                     !.i = @ + 1]
    /\ UNCHANGED <<game, cfg, tree, root, crashed, playouts, dvars>>

\* the throw after the loop
R_throw ==
    /\ last.st = "run" /\ last.i >= MAX_ROLLOUT_ITERS
    /\ last' = [last EXCEPT !.st = "throw"]
    /\ UNCHANGED <<game, cfg, tree, root, crashed, playouts, dvars>>

NextRollout == R_return \/ R_move \/ R_throw

SpecRollout == InitRollout /\ [][NextRollout]_vars

\* C35: rollout returns the evaluation of the terminal or exact position it
\* reached, negated when the number of moves played is odd; it does not
\* modify its input; it throws when no such position was reached within
\* MAX_ROLLOUT_ITERS moves, and only then
C35_Rollout ==
    /\ game = last.input
    /\ last.st = "ok" =>
          /\ rollout_ends(last.curr_move)
          /\ last.ret = (IF last.i % 2 = 0 THEN 1 ELSE -1) * last.curr_move.val
    /\ last.st = "throw" =>
          /\ last.i = MAX_ROLLOUT_ITERS
          /\ ~rollout_ends(last.curr_move)


(***************************************************************************)
(* _corridors_mcts: the non-threaded handle; root is root_node             *)
(***************************************************************************)
InitBinding ==
    /\ game \in SeqRange(Games)
    /\ cfg \in Configs
    /\ tree = FreshTree(game)
    /\ root = <<>>
    /\ last = [op |-> "new", arg |-> 0, flag |-> FALSE, st |-> "ok", out |-> <<>>,
               fresh |-> FALSE]
    /\ crashed = FALSE
    /\ playouts = 0
    /\ mutex = "none" /\ w_owns = FALSE /\ stop_flag = FALSE /\ target_sims = 0
    /\ dcfg \in [sim_increment : {0}, min_sims : {0}, decide_using_visits : BOOLEAN]
    /\ wpc = "w_none" /\ w_i = 0 /\ w_sims_to_run = 0
    /\ hosts = {} /\ hpc = <<>> /\ harg = <<>> /\ hneed = <<>> /\ htimed = <<>>
    /\ hret = <<>>

\* _corridors_mcts::run_simulations(n)
B_run_simulations ==
    /\ ~crashed
    /\ \E n \in -1..MaxSimulations :
        /\ playouts + Max2(n, 0) <= MaxPlayouts
        /\ playouts' = playouts + Max2(n, 0)
        /\ IF n <= 0
           THEN /\ tree' = tree
                /\ crashed' = crashed
                /\ last' = Call("run_simulations", n, FALSE, "ok", tree, root)
           ELSE \E o \in simulate(tree, root, n, cfg) :
                /\ tree' = o.t
                /\ crashed' = (o.st = "crash")
                /\ last' = Call("run_simulations", n, FALSE, o.st, tree, root)
    /\ UNCHANGED <<game, cfg, root, dvars>>

\* _corridors_mcts::choose_best_action(epsilon): root_node is not assigned
B_choose_best_action ==
    /\ ~crashed
    /\ \E epsilon \in Epsilons :
        \E o \in choose_best_action(tree, root, epsilon, dcfg.decide_using_visits) :
            /\ tree' = o.t
            /\ last' = Call("choose_best_action", epsilon, dcfg.decide_using_visits,
                            o.st, tree, root)
    /\ UNCHANGED <<game, cfg, root, crashed, playouts, dvars>>

\* _corridors_mcts::make_move(action, flip)
B_make_move ==
    /\ ~crashed
    /\ \E choice \in 0..Len(state(root).subs) :
        LET o == make_move(tree, root, choice)
        IN  /\ tree' = o.t
            /\ root' = IF o.st = "ok" THEN o.ret ELSE root
            /\ last' = Call("make_move", choice, FALSE, o.st, tree, root)
    /\ UNCHANGED <<game, cfg, crashed, playouts, dvars>>

NextBinding == B_run_simulations \/ B_choose_best_action \/ B_make_move

SpecBinding == InitBinding /\ [][NextBinding]_vars

\* C36: the handle's choose_best_action is a query: it leaves the root
\* where it is, no child of the root ever has a null parent, and a
\* run_simulations(n) that follows it adds exactly n to the root's visits
C36_ChooseIsQuery ==
    /\ [](\A k \in Kids(root) : tree[k].parent # NULL)
    /\ [][last'.op = "choose_best_action" => root' = root]_vars
    /\ [][(/\ Chose
           /\ last'.op = "run_simulations" /\ last'.st = "ok")
            => tree'[root].visit_count
                 = tree[root].visit_count + Max2(last'.arg, 0)]_vars


(***************************************************************************)
(* Properties of the driver's make_move and of its waits                   *)
(***************************************************************************)
\* C37: a successful make_move of the driver makes the existing child the
\* root, with its evaluation, statistics and subtree as they were and only
\* its parent cleared, and leaves target_sims alone; a simulation of the
\* worker changes nodes of the current root's subtree only and, when it
\* succeeds, adds one visit to the current root
C37_TreeReuse ==
    /\ [][\A h \in hosts :
            (hpc[h] = "mm_in" /\ hpc'[h] = "mm_ret" /\ hret'[h].st = "ok")
              => /\ root' = Append(root, harg[h] + 1)
                 /\ tree'[root'] = [tree[root'] EXCEPT !.parent = NULL]
                 /\ \A q \in Nodes :
                      (IsPrefix(root', q) /\ q # root') => tree'[q] = tree[q]
                 /\ target_sims' = target_sims]_vars
    /\ [][(wpc = "w_rs_sim" /\ wpc' = "w_sub")
              => /\ \A q \in Nodes : ~IsPrefix(root, q) => tree'[q] = tree[q]
                 /\ last'.st = "ok"
                      => tree'[root].visit_count = tree[root].visit_count + 1]_vars

\* h2's move was made while h1's simulation was pending, and the worker
\* has since run it on the new root: the old root has no visit
C37_Witness ==
    /\ hosts = {"h1", "h2"}
    /\ hpc["h2"] = "mm_ret" /\ hret["h2"].st = "ok" /\ hpc["h1"] = "ss_poll"
    /\ wpc = "w_sub" /\ target_sims > 0
    /\ root # <<>> /\ tree[root].parent = NULL
    /\ tree[root].visit_count > 0 /\ tree[Front(root)].visit_count = 0


(*---------------- one call of set_state_and_make_best_move ---------------*)
\* a driver with min_simulations > 0 and sim_increment > 0, one host that
\* calls set_state_and_make_best_move once; every thread that can take a
\* step eventually takes one, the host gets the mutex if it is free again
\* and again, a spurious wake-up is never owed
InitLive ==
    /\ game \in DriverGames
    /\ cfg \in DriverConfigs
    /\ tree = FreshTree(game)
    /\ root = <<>>
    /\ last = [op |-> "new", arg |-> 0, flag |-> FALSE, st |-> "ok", out |-> <<>>,
               fresh |-> FALSE]
    /\ crashed = FALSE
    /\ playouts = 0
    /\ mutex = "none" /\ w_owns = FALSE /\ stop_flag = FALSE /\ target_sims = 0
    /\ dcfg \in {d \in DriverSettings : d.sim_increment > 0 /\ d.min_sims > 0}
    /\ wpc = "w_start" /\ w_i = 0 /\ w_sims_to_run = 0
    /\ hosts = {"h1"}
    /\ hpc = [h \in hosts |-> "idle"]
    /\ harg = [h \in hosts |-> <<>>]
    /\ hneed = [h \in hosts |-> 0]
    /\ htimed = [h \in hosts |-> FALSE]
    /\ hret = [h \in hosts |-> NoResult]

L_set_state(h) ==
    /\ Idle(h) /\ last.op = "new"
    /\ \E board \in Nodes : harg' = [harg EXCEPT ![h] = board]
    /\ goto(h, "ss_lock")
    /\ last' = [last EXCEPT !.op = "set_state_and_make_best_move"]
    /\ UNCHANGED <<game, cfg, tree, root, crashed, playouts, mutex, w_owns,
                   stop_flag, target_sims, dcfg, wpc, w_i, w_sims_to_run,
                   hosts, hret, hneed, htimed>>

\* the call returns; the board it was given is forgotten
L_ret(h) ==
    /\ ~crashed /\ hpc[h] = "ss_ret"
    /\ goto(h, "idle")
    /\ harg' = [harg EXCEPT ![h] = <<>>]
    /\ UNCHANGED <<evars, mutex, w_owns, stop_flag, target_sims, dcfg, wpc,
                   w_i, w_sims_to_run, hosts, hret, hneed, htimed>>

HostLive(h) ==
    \/ L_set_state(h) \/ H_lock(h) \/ H_ss_new(h) \/ H_store(h) \/ H_notify(h)
    \/ H_poll_done(h) \/ H_ss_cba(h) \/ L_ret(h)
\* the steps of the worker that the scheduler owes it; the stop flag is
\* never set, so the worker never leaves its loop
WorkerRuns ==
    \/ W_start \/ W_loop \/ W_read \/ W_wait \/ W_woken
    \/ W_unlock \/ W_min \/ W_for \/ W_rs_lock \/ W_rs_sim \/ W_sub
    \/ W_relock
NextLive == WorkerRuns \/ W_spurious \/ \E h \in hosts : HostLive(h)

SpecLive ==
    /\ InitLive /\ [][NextLive]_vars
    /\ WF_vars(WorkerRuns) /\ SF_vars(HostLive("h1"))

\* C38: a call of set_state_and_make_best_move with min_simulations > 0,
\* the stop flag clear, eventually returns
C38_SetStateReturns == (hpc["h1"] = "ss_lock") ~> (hpc["h1"] = "ss_ret")


(*------------------ repeated ensure_sims, never timed out ----------------*)
\* one host calls ensure_sims again and again on a non-terminal root with
\* sim_increment >= 1; no polling loop runs into its timeout and the
\* driver is not destroyed. `last` keeps, for the call in progress or just
\* returned, sims (arg) and in out the number of simulations the worker had
\* run and the root's visit count when the call was made
InitAccount ==
    /\ InitDriver
    /\ dcfg.sim_increment > 0
    /\ game.kind # "T"

A_ensure_sims(h) ==
    /\ Idle(h)
    /\ \E sims \in 1..MaxEnsure : harg' = [harg EXCEPT ![h] = sims]
    /\ htimed' = [htimed EXCEPT ![h] = FALSE]
    /\ goto(h, IF dcfg.sim_increment = 0 THEN "es_ret" ELSE "es_lock1")
    /\ last' = [last EXCEPT !.op = "ensure_sims", !.arg = harg'[h],
                            !.out = <<playouts, get_visit_count(tree, root)>>]
    /\ UNCHANGED <<game, cfg, tree, root, crashed, playouts, mutex, w_owns,
                   stop_flag, target_sims, dcfg, wpc, w_i, w_sims_to_run,
                   hosts, hret, hneed>>

HostAccount(h) ==
    \/ A_ensure_sims(h) \/ H_lock(h) \/ H_es_read1(h) \/ H_store(h)
    \/ H_notify(h) \/ H_poll_done(h) \/ H_es_read2(h) \/ H_es_ret(h)
NextAccount == WorkerRuns \/ W_spurious \/ \E h \in hosts : HostAccount(h)

SpecAccount == InitAccount /\ [][NextAccount]_vars

\* the simulations the call recorded in last asks of the worker: n - v
C39_Owed == Max2(last.arg - last.out[2], 0)

\* C39: ensure_sims(n) called at visit count v makes the worker run
\* exactly n - v simulations (none when v >= n), whatever sim_increment
\* is: never more while the call runs or after it, and exactly as many
\* once it has returned, with target_sims = 0 and n visits at the root
C39_ExactAccounting ==
    last.op = "ensure_sims" =>
        /\ playouts <= last.out[1] + C39_Owed
        /\ \A h \in hosts :
             hpc[h] \in {"es_ret", "idle"}
               => /\ playouts = last.out[1] + C39_Owed
                  /\ target_sims = 0
                  /\ get_visit_count(tree, root) = Max2(last.arg, last.out[2])

\* ensure_sims(2) called at one visit has returned; sim_increment is 2
C39_Witness ==
    /\ last.op = "ensure_sims" /\ last.arg = 2 /\ last.out = <<1, 1>>
    /\ dcfg.sim_increment = 2
    /\ \A h \in hosts : hpc[h] = "idle"
    /\ playouts = 2 /\ wpc = "w_blocked"

====
